---- MODULE Spec2Model ----
(***************************************************************************)
(* Model of the order-export pipeline of xponline-auto-systems:            *)
(*   src/src/utils/csvParser.ts  parseCSV, normalizeSize,                   *)
(*                               detectColorFamily, aggregateData           *)
(*   src/src/App.tsx             processFile (parse, aggregate, publish),   *)
(*                               the checklist, the product table, export,  *)
(*                               the earnings view, the load and save       *)
(*                               effects                                    *)
(*                                                                         *)
(* A JavaScript string is a sequence of one-character strings, so that     *)
(* split, trim, toUpperCase, includes, parseInt and parseFloat are          *)
(* computed character by character as the runtime computes them.           *)
(* A JavaScript number is an integer count of hundredths (Scale) or NaN.   *)
(***************************************************************************)
EXTENDS Integers, Sequences, FiniteSets, TLC

VARIABLES
    rows,       \* results.data consumed so far by the forEach of parseCSV
    items,      \* const items: ParsedItem[]            (csvParser.ts:90)
    ordersMap,  \* const ordersMap = new Map<string, Order>(), insertion order (csvParser.ts:91)
    pc,         \* position of processFile: "parsing", "parsed", "published"
    data,       \* App state `data`: AggregatedData | null  (App.tsx:167)
    builtins,   \* properties written on built-in objects (Object, Object.prototype)
    rerun,      \* the result of a second call of aggregateData on the same arguments
    call,       \* a call of an exported or module-level pure function: its argument and result
    shipPc,     \* position of parseShippingCSV: "reading", "parsed", "failed", "resolved", "rejected"
    headers,    \* const headers = results.meta.fields || []   (csvParser.ts:210)
    nameKey,    \* csvParser.ts:212
    costKey,    \* csvParser.ts:216
    shipRows,   \* results.data: the rows Papa has parsed from the shipping file
    costs,      \* const costs = new Map<string, number>(), insertion order (csvParser.ts:195)
    shopifyPercent,         \* App.tsx:40
    shopifyFixed,           \* App.tsx:41
    blankCosts,             \* App.tsx:42
    shippingCost,           \* App.tsx:43
    earningsSortField,      \* App.tsx:50
    earningsSortDirection,  \* App.tsx:53
    processedOrders,        \* the value of getProcessedOrders() in the last render (App.tsx:423)
    earningsStats,          \* const earningsStats (App.tsx:423)
    loading,        \* App.tsx:27
    fileName,       \* App.tsx:28
    checkedCells,   \* App.tsx:37: cell key -> checked count
    sortField,      \* App.tsx:46
    sortDirection,  \* App.tsx:47
    flights,        \* the calls of processFile suspended at await parseCSV(file), in start order
    imports,        \* number of calls of processFile so far
    dataFile,       \* name of the file whose rows the published data was aggregated from
    heap,           \* the AggregatedData objects handed to setData, in allocation order, as they are now
    download,       \* the last file handed to the browser by exportData (App.tsx:287-297)
    storage,        \* localStorage item STORAGE_KEY, as the JSON value its text denotes
    saved,          \* const saved of the load effect (App.tsx:72)
    isInitialized,  \* App.tsx:58
    darkMode,       \* App.tsx:31
    activeTab,      \* App.tsx:34
    mountPc,        \* position of the mount: "rendered", "loaded", "flushed", "applied", "idle"
    pending         \* the state the set calls of the load effect have asked for, not yet rendered

pipeVars == <<rows, items, ordersMap, pc, data, builtins>>
shipVars == <<shipPc, headers, nameKey, costKey, shipRows, costs>>
settingVars == <<shopifyPercent, shopifyFixed, blankCosts, shippingCost,
                 earningsSortField, earningsSortDirection>>
renderVars == <<processedOrders, earningsStats>>
appVars == <<loading, fileName, checkedCells, sortField, sortDirection,
             flights, imports, dataFile, heap, download>>
mountCtl == <<saved, isInitialized, darkMode, activeTab, mountPc, pending>>
mountVars == <<storage, mountCtl>>
vars == <<pipeVars, rerun, call, shipVars, settingVars, renderVars, appVars, mountVars>>

----------------------------------------------------------------------------
(* Bounds of the model *)

\* longest file (number of data rows) explored
MaxRows == 3
\* most tokens concatenated into one generated item name
MaxTok == 4
\* longest generated size token, in characters
MaxSizeLen == 3
\* most tokens concatenated into one generated color
MaxColorTok == 3

----------------------------------------------------------------------------
(* JavaScript values *)

\* a number: NaN, or a count of hundredths
NaN == [nan |-> TRUE, v |-> 0]
Num(n) == [nan |-> FALSE, v |-> n]
isNaN(x) == x.nan

\* hundredths in one unit
Scale == 10 * 10

\* null as returned by normalizeSize (no string: its one element is not a character)
Null == <<"null">>
NoDownload == [null |-> TRUE]

\* useState<AggregatedData | null>(null)
NoData == [null |-> TRUE]

Digits == <<"0", "1", "2", "3", "4", "5", "6", "7", "8", "9">>
LowerLetters ==
    <<"a", "b", "c", "d", "e", "f", "g", "h", "i", "j", "k", "l", "m",
      "n", "o", "p", "q", "r", "s", "t", "u", "v", "w", "x", "y", "z">>
UpperLetters ==
    <<"A", "B", "C", "D", "E", "F", "G", "H", "I", "J", "K", "L", "M",
      "N", "O", "P", "Q", "R", "S", "T", "U", "V", "W", "X", "Y", "Z">>

IsDigit(c) == \E i \in 1..10 : Digits[i] = c
DigitVal(c) == (CHOOSE i \in 1..10 : Digits[i] = c) - 1
IsSpace(c) == c = " "

\* String.prototype.toUpperCase, one character
UpperCh(c) ==
    IF \E i \in 1..26 : LowerLetters[i] = c
    THEN UpperLetters[CHOOSE i \in 1..26 : LowerLetters[i] = c]
    ELSE c

\* String.prototype.toLowerCase, one character
LowerCh(c) ==
    IF \E i \in 1..26 : UpperLetters[i] = c
    THEN LowerLetters[CHOOSE i \in 1..26 : UpperLetters[i] = c]
    ELSE c

toUpperCase(s) == [i \in 1..Len(s) |-> UpperCh(s[i])]
toLowerCase(s) == [i \in 1..Len(s) |-> LowerCh(s[i])]

\* sub occurs in s at position i
MatchAt(s, sub, i) ==
    /\ i >= 1
    /\ i + Len(sub) - 1 <= Len(s)
    /\ \A k \in 1..Len(sub) : s[i + k - 1] = sub[k]

\* String.prototype.includes
includes(s, sub) == \E i \in 1..(Len(s) + 1) : MatchAt(s, sub, i)

\* String.prototype.indexOf, 1-based; 0 when sub does not occur
indexOf(s, sub) ==
    IF includes(s, sub)
    THEN CHOOSE i \in 1..(Len(s) + 1) :
            /\ MatchAt(s, sub, i)
            /\ \A j \in 1..(i - 1) : ~MatchAt(s, sub, j)
    ELSE 0

\* String.prototype.split with a non-empty string separator
RECURSIVE split(_, _)
split(s, sep) ==
    LET i == indexOf(s, sep) IN
    IF i = 0 THEN <<s>>
    ELSE <<SubSeq(s, 1, i - 1)>> \o split(SubSeq(s, i + Len(sep), Len(s)), sep)

\* Array.prototype.join
RECURSIVE join(_, _)
join(parts, sep) ==
    IF Len(parts) = 0 THEN <<>>
    ELSE IF Len(parts) = 1 THEN parts[1]
    ELSE parts[1] \o sep \o join(Tail(parts), sep)

RECURSIVE trimStart(_)
trimStart(s) ==
    IF Len(s) > 0 /\ IsSpace(s[1]) THEN trimStart(Tail(s)) ELSE s

RECURSIVE trimEnd(_)
trimEnd(s) ==
    IF Len(s) > 0 /\ IsSpace(s[Len(s)]) THEN trimEnd(SubSeq(s, 1, Len(s) - 1)) ELSE s

\* String.prototype.trim
trim(s) == trimEnd(trimStart(s))

\* the value of the longest prefix of s made of digits, and its length
RECURSIVE DigitRun(_, _, _)
DigitRun(s, acc, n) ==
    IF Len(s) > 0 /\ IsDigit(s[1])
    THEN DigitRun(Tail(s), acc * 10 + DigitVal(s[1]), n + 1)
    ELSE [val |-> acc, len |-> n]

\* parseInt(str, 10): leading white space, an optional sign, the longest run
\* of digits; NaN when there is no digit there
parseInt(str) ==
    LET t == trimStart(str)
        neg == Len(t) > 0 /\ t[1] = "-"
        signed == Len(t) > 0 /\ (t[1] = "-" \/ t[1] = "+")
        body == IF signed THEN Tail(t) ELSE t
        run == DigitRun(body, 0, 0)
    IN  IF run.len = 0 THEN NaN
        ELSE IF neg THEN Num(0 - run.val) ELSE Num(run.val)

\* parseFloat, last step: the value of the integer digits ip and the fraction
\* digits fp read from the text frac after the dot
FloatValue(neg, ip, fp, frac) ==
    IF ip.len = 0 /\ fp.len = 0 THEN NaN
    ELSE LET d1 == IF fp.len >= 1 THEN DigitVal(frac[1]) ELSE 0
             d2 == IF fp.len >= 2 THEN DigitVal(frac[2]) ELSE 0
             mag == ip.val * Scale + d1 * 10 + d2
         IN  IF neg THEN Num(0 - mag) ELSE Num(mag)

\* parseFloat after the integer digits: an optional "." and digits
FloatFraction(neg, ip, rest) ==
    IF Len(rest) > 0 /\ rest[1] = "."
    THEN FloatValue(neg, ip, DigitRun(Tail(rest), 0, 0), Tail(rest))
    ELSE FloatValue(neg, ip, [val |-> 0, len |-> 0], <<>>)

\* parseFloat after the sign: the integer digits
FloatDigits(neg, body, ip) == FloatFraction(neg, ip, SubSeq(body, ip.len + 1, Len(body)))

\* parseFloat after the leading white space: an optional sign
FloatSigned(t) ==
    IF Len(t) > 0 /\ (t[1] = "-" \/ t[1] = "+")
    THEN FloatDigits(t[1] = "-", Tail(t), DigitRun(Tail(t), 0, 0))
    ELSE FloatDigits(FALSE, t, DigitRun(t, 0, 0))

\* parseFloat(str): leading white space, an optional sign, digits, an optional
\* "." and digits; NaN when no digit is there. The result is in hundredths:
\* the first two fraction digits are kept.
parseFloat(str) == FloatSigned(trimStart(str))

\* a string is truthy unless it is empty (an absent field, undefined, is
\* modelled as the empty string: both are falsy and both parse to NaN)
Truthy(s) == Len(s) > 0

----------------------------------------------------------------------------
(* csvParser.ts: sizes and colors *)

sXS == <<"X", "S">>
sSMALL == <<"S", "M", "A", "L", "L">>
sMEDIUM == <<"M", "E", "D", "I", "U", "M">>
sLARGE == <<"L", "A", "R", "G", "E">>
sXL == <<"X", "L">>
s2XL == <<"2", "X", "L">>
s3XL == <<"3", "X", "L">>

\* const SIZE_MAPPING: the own properties of the object, key then value
SIZE_MAPPING ==
    << <<sXS, sXS>>,
       <<<<"X", "S", "M", "A", "L", "L">>, sXS>>,
       <<<<"S">>, sSMALL>>,
       <<sSMALL, sSMALL>>,
       <<<<"S", "M">>, sSMALL>>,
       <<<<"M">>, sMEDIUM>>,
       <<sMEDIUM, sMEDIUM>>,
       <<<<"M", "D">>, sMEDIUM>>,
       <<<<"L">>, sLARGE>>,
       <<sLARGE, sLARGE>>,
       <<<<"L", "G">>, sLARGE>>,
       <<sXL, sXL>>,
       <<<<"X", "L", "A", "R", "G", "E">>, sXL>>,
       <<s2XL, s2XL>>,
       <<<<"X", "X", "L">>, s2XL>>,
       <<<<"2", "X">>, s2XL>>,
       <<<<"X", "X", "X", "L">>, s3XL>>,
       <<s3XL, s3XL>>,
       <<<<"3", "X">>, s3XL>>
    >>

\* const ORDERED_SIZES
ORDERED_SIZES == <<sXS, sSMALL, sMEDIUM, sLARGE, sXL, s2XL, s3XL>>

\* ORDERED_SIZES.includes(size)
IsOrderedSize(size) == \E i \in 1..Len(ORDERED_SIZES) : ORDERED_SIZES[i] = size

\* Property names every plain object inherits from Object.prototype with a
\* truthy value (the list is a sample of them). All hold a lower-case letter,
\* so no upper-cased token is one of them: SIZE_MAPPING[upper] reads own
\* properties only.
ObjectPrototypeKeys ==
    { <<"c", "o", "n", "s", "t", "r", "u", "c", "t", "o", "r">>,
      <<"v", "a", "l", "u", "e", "O", "f">>,
      <<"_", "_", "p", "r", "o", "t", "o", "_", "_">> }

\* the sentinels of parseCSV
Unknown == <<"U", "n", "k", "n", "o", "w", "n">>
Standard == <<"S", "t", "a", "n", "d", "a", "r", "d">>
OneSize == <<"O", "n", "e", " ", "S", "i", "z", "e">>

\* the separators of parseCSV
NameSep == <<" ", "-", " ">>
Slash == <<"/">>

\* normalizeSize with the lookup changed to compare the token as written,
\* without upper-casing it
normalizeSize_NoUpper(str) ==
    IF ~Truthy(str) THEN Null
    ELSE IF \E i \in 1..Len(SIZE_MAPPING) : SIZE_MAPPING[i][1] = str
         THEN SIZE_MAPPING[CHOOSE i \in 1..Len(SIZE_MAPPING) : SIZE_MAPPING[i][1] = str][2]
         ELSE Null

\* const normalizeSize = (str: string): string | null
normalizeSize(str) ==
    IF ~Truthy(str) THEN Null
    ELSE LET upper == toUpperCase(str) IN
         IF \E i \in 1..Len(SIZE_MAPPING) : SIZE_MAPPING[i][1] = upper
         THEN SIZE_MAPPING[CHOOSE i \in 1..Len(SIZE_MAPPING) : SIZE_MAPPING[i][1] = upper][2]
         ELSE Null

\* the family keywords of detectColorFamily, in the order they are tested
kBlack == <<"b", "l", "a", "c", "k">>
kWhite == <<"w", "h", "i", "t", "e">>
kBrown == <<"b", "r", "o", "w", "n">>
kStorm == <<"s", "t", "o", "r", "m">>
kBlue == <<"b", "l", "u", "e">>

\* detectColorFamily with "white" tested before "black"
detectColorFamily_WhiteFirst(color) ==
    LET lower == toLowerCase(color) IN
    IF includes(lower, kWhite) THEN kWhite
    ELSE IF includes(lower, kBlack) THEN kBlack
    ELSE IF includes(lower, kBrown) THEN kBrown
    ELSE IF includes(lower, kStorm) THEN kStorm
    ELSE IF includes(lower, kBlue) THEN kBlue
    ELSE color

\* const detectColorFamily = (color: string): string
detectColorFamily(color) ==
    LET lower == toLowerCase(color) IN
    IF includes(lower, kBlack) THEN kBlack
    ELSE IF includes(lower, kWhite) THEN kWhite
    ELSE IF includes(lower, kBrown) THEN kBrown
    ELSE IF includes(lower, kStorm) THEN kStorm
    ELSE IF includes(lower, kBlue) THEN kBlue
    ELSE color

----------------------------------------------------------------------------
(* csvParser.ts: parseCSV, the body of results.data.forEach((row, index) => ...) *)

\* Number to decimal string, as a template literal prints an array index
RECURSIVE ToStr(_)
ToStr(n) ==
    IF n < 10 THEN <<Digits[n + 1]>>
    ELSE ToStr(n \div 10) \o <<Digits[(n % 10) + 1]>>

\* new Date(text): a text "<digits>/<digits>" is read as month and day, the
\* time value being month * 100 + day; any other text gives an Invalid Date,
\* whose time value is NaN
NewDate(text) ==
    LET m == DigitRun(text, 0, 0)
        rest == SubSeq(text, m.len + 1, Len(text))
        slash == Len(rest) > 0 /\ rest[1] = "/"
        d == IF slash THEN DigitRun(Tail(rest), 0, 0) ELSE [val |-> 0, len |-> 0]
    IN  IF m.len > 0 /\ slash /\ d.len > 0 /\ m.len + 1 + d.len = Len(text)
        THEN [time |-> Num(m.val * 100 + d.val)]
        ELSE [time |-> NaN]

\* suffix.split("/").map((s) => s.trim())
SuffixParts(suffix) ==
    LET raw == split(suffix, Slash) IN [i \in 1..Len(raw) |-> trim(raw[i])]

\* TwoPartSuffix with the second part tried first
TwoPartSuffix_SecondFirst(suffix, partA, partB) ==
    LET sizeA == normalizeSize(partA)
        sizeB == normalizeSize(partB)
    IN  IF sizeB # Null THEN [size |-> sizeB, color |-> partA]
        ELSE IF sizeA # Null THEN [size |-> sizeA, color |-> partB]
        ELSE [size |-> Unknown, color |-> suffix]

\* csvParser.ts:111-124, the branch suffixParts.length === 2: [size, color]
TwoPartSuffix(suffix, partA, partB) ==
    LET sizeA == normalizeSize(partA)
        sizeB == normalizeSize(partB)
    IN  IF sizeA # Null THEN [size |-> sizeA, color |-> partB]
        ELSE IF sizeB # Null THEN [size |-> sizeB, color |-> partA]
        ELSE [size |-> Unknown, color |-> suffix]

\* OnePartSuffix leaving the size at its initial "Unknown" when the suffix is
\* no size
OnePartSuffix_KeepUnknown(suffix) ==
    LET s == normalizeSize(suffix) IN
    IF s # Null THEN [size |-> s, color |-> Standard]
    ELSE [size |-> Unknown, color |-> suffix]

\* csvParser.ts:125-134, the else branch: the suffix as one token
OnePartSuffix(suffix) ==
    LET s == normalizeSize(suffix) IN
    IF s # Null THEN [size |-> s, color |-> Standard]
    ELSE [size |-> OneSize, color |-> suffix]

\* ParseName keeping only the first segment as the product name
ParseName_FirstSegment(rawName) ==
    LET parts == split(rawName, NameSep) IN
    IF Len(parts) >= 2
    THEN LET suffix == parts[Len(parts)]
             suffixParts == SuffixParts(suffix)
             sc == IF Len(suffixParts) = 2
                   THEN TwoPartSuffix(suffix, suffixParts[1], suffixParts[2])
                   ELSE OnePartSuffix(suffix)
         IN  [productName |-> parts[1], color |-> sc.color, size |-> sc.size]
    ELSE [productName |-> rawName, color |-> Unknown, size |-> Unknown]

\* ParseName reading the first two parts of a longer suffix as a pair
ParseName_LeadingPair(rawName) ==
    LET parts == split(rawName, NameSep) IN
    IF Len(parts) >= 2
    THEN LET suffix == parts[Len(parts)]
             productName == join(SubSeq(parts, 1, Len(parts) - 1), NameSep)
             suffixParts == SuffixParts(suffix)
             sc == IF Len(suffixParts) >= 2
                   THEN TwoPartSuffix(suffix, suffixParts[1], suffixParts[2])
                   ELSE OnePartSuffix(suffix)
         IN  [productName |-> productName, color |-> sc.color, size |-> sc.size]
    ELSE [productName |-> rawName, color |-> Unknown, size |-> Unknown]

\* csvParser.ts:100-135, name parsing: [productName, color, size]
ParseName(rawName) ==
    LET parts == split(rawName, NameSep) IN
    IF Len(parts) >= 2
    THEN LET suffix == parts[Len(parts)]
             productName == join(SubSeq(parts, 1, Len(parts) - 1), NameSep)
             suffixParts == SuffixParts(suffix)
             sc == IF Len(suffixParts) = 2
                   THEN TwoPartSuffix(suffix, suffixParts[1], suffixParts[2])
                   ELSE OnePartSuffix(suffix)
         IN  [productName |-> productName, color |-> sc.color, size |-> sc.size]
    ELSE [productName |-> rawName, color |-> Unknown, size |-> Unknown]

\* LineItems accepting a quantity only when the whole text is an integer
LineItems_WholeText(row, index) ==
    LET quantity == parseInt(row.lineitemQuantity)
        rawName == row.lineitemName
        t == row.lineitemQuantity
        body == IF Len(t) > 0 /\ (t[1] = "-" \/ t[1] = "+") THEN Tail(t) ELSE t
    IN  IF Truthy(rawName) /\ Len(body) > 0 /\ DigitRun(body, 0, 0).len = Len(body)
        THEN LET n == ParseName(rawName) IN
             << [id |-> ToStr(index) \o <<"-">> \o rawName,
                 productName |-> n.productName,
                 color |-> n.color,
                 size |-> n.size,
                 quantity |-> quantity.v] >>
        ELSE <<>>

\* csvParser.ts:95-144: what the row pushes onto items (nothing, or one item)
LineItems(row, index) ==
    LET quantity == parseInt(row.lineitemQuantity)
        rawName == row.lineitemName
    IN  IF Truthy(rawName) /\ ~isNaN(quantity)
        THEN LET n == ParseName(rawName) IN
             << [id |-> ToStr(index) \o <<"-">> \o rawName,
                 productName |-> n.productName,
                 color |-> n.color,
                 size |-> n.size,
                 quantity |-> quantity.v] >>
        ELSE <<>>

\* ordersMap.has(orderName)
MapHas(map, orderName) == \E i \in 1..Len(map) : map[i].name = orderName

\* row["Total"] || "0"
OrZero(text) == IF Truthy(text) THEN text ELSE <<"0">>

\* OrderStep without the ordersMap.has test: every dated row appends an order
OrderStep_NoHas(map, row) ==
    LET orderName == row.name IN
    IF Truthy(orderName) /\ Truthy(row.createdAt)
    THEN LET total == parseFloat(OrZero(row.total))
             subtotal == parseFloat(OrZero(row.subtotal))
         IN  Append(map, [id |-> orderName,
                          name |-> orderName,
                          date |-> NewDate(row.createdAt),
                          total |-> total,
                          subtotal |-> subtotal,
                          shippingCost |-> Num(0),
                          netEarnings |-> total])
    ELSE map

\* OrderStep with Map.set reached for a name already present: the entry keeps
\* its place and takes the later row's values
OrderStep_LastWins(map, row) ==
    LET orderName == row.name IN
    IF Truthy(orderName) /\ Truthy(row.createdAt)
    THEN LET total == parseFloat(OrZero(row.total))
             subtotal == parseFloat(OrZero(row.subtotal))
             o == [id |-> orderName,
                   name |-> orderName,
                   date |-> NewDate(row.createdAt),
                   total |-> total,
                   subtotal |-> subtotal,
                   shippingCost |-> Num(0),
                   netEarnings |-> total]
         IN  IF MapHas(map, orderName)
             THEN [i \in 1..Len(map) |-> IF map[i].name = orderName THEN o ELSE map[i]]
             ELSE Append(map, o)
    ELSE map

\* csvParser.ts:146-173: the order map after the row
OrderStep(map, row) ==
    LET orderName == row.name IN
    IF Truthy(orderName) /\ ~MapHas(map, orderName) /\ Truthy(row.createdAt)
    THEN LET total == parseFloat(OrZero(row.total))
             subtotal == parseFloat(OrZero(row.subtotal))
         IN  Append(map, [id |-> orderName,
                          name |-> orderName,
                          date |-> NewDate(row.createdAt),
                          total |-> total,
                          subtotal |-> subtotal,
                          shippingCost |-> Num(0),
                          netEarnings |-> total])
    ELSE map

----------------------------------------------------------------------------
(* csvParser.ts: aggregateData *)

SizeSet == {ORDERED_SIZES[i] : i \in 1..Len(ORDERED_SIZES)}

\* ORDERED_SIZES.forEach((s) => (m[s] = 0)) on a fresh object
ZeroSizes == [s \in SizeSet |-> 0]

\* obj[key] is truthy: an own row, or a value inherited from Object.prototype
RowTruthy(obj, key) == key \in DOMAIN obj \/ key \in ObjectPrototypeKeys

\* BumpRow without the pre-population of a new row: the row starts with the
\* one size that is counted
BumpRow_Lazy(obj, key, size, quantity) ==
    IF key \in DOMAIN obj
    THEN [obj EXCEPT ![key] = IF size \in DOMAIN @
                              THEN [@ EXCEPT ![size] = @ + quantity]
                              ELSE (size :> quantity) @@ @]
    ELSE IF key \in ObjectPrototypeKeys THEN obj
    ELSE (key :> (size :> quantity)) @@ obj

\* if (!obj[key]) { obj[key] = {}; ORDERED_SIZES.forEach(...) }; obj[key][size] += quantity
\* The += lands on the own row when there is one; on an inherited value it
\* changes that built-in object and leaves obj as it was.
BumpRow(obj, key, size, quantity) ==
    LET made == IF RowTruthy(obj, key) THEN obj ELSE (key :> ZeroSizes) @@ obj IN
    IF key \in DOMAIN made
    THEN [made EXCEPT ![key][size] = @ + quantity]
    ELSE made

\* the properties the += writes on built-in objects instead of on obj
InheritedWrite(obj, key, size) ==
    IF key \notin DOMAIN obj /\ key \in ObjectPrototypeKeys THEN {<<key, size>>} ELSE {}

\* the accumulators kept from the run that produced the published data
AggStart_Retained ==
    IF data = NoData
    THEN [products |-> [k \in {} |-> ZeroSizes],
          colorTotals |-> [k \in {} |-> ZeroSizes],
          totals |-> ZeroSizes,
          grandTotal |-> 0,
          builtins |-> {}]
    ELSE [products |-> data.products,
          colorTotals |-> data.colorTotals,
          totals |-> data.totals,
          grandTotal |-> data.grandTotal,
          builtins |-> {}]

\* csvParser.ts:262-267: the accumulators before the loop
AggStart ==
    [products |-> [k \in {} |-> ZeroSizes],
     colorTotals |-> [k \in {} |-> ZeroSizes],
     totals |-> ZeroSizes,
     grandTotal |-> 0,
     builtins |-> {}]

\* AggStep with the size totals counting items instead of quantities
AggStep_CountItems(acc, item) ==
    IF ~IsOrderedSize(item.size) THEN acc
    ELSE LET rowKey == item.productName \o NameSep \o item.color
             colorFamily == detectColorFamily(item.color)
         IN  [products |-> BumpRow(acc.products, rowKey, item.size, item.quantity),
              colorTotals |-> BumpRow(acc.colorTotals, colorFamily, item.size, item.quantity),
              totals |-> [acc.totals EXCEPT ![item.size] = @ + 1],
              grandTotal |-> acc.grandTotal + item.quantity,
              builtins |-> acc.builtins]

\* csvParser.ts:269-292: the body of items.forEach((item) => ...)
AggStep(acc, item) ==
    IF ~IsOrderedSize(item.size) THEN acc
    ELSE LET rowKey == item.productName \o NameSep \o item.color
             colorFamily == detectColorFamily(item.color)
         IN  [products |-> BumpRow(acc.products, rowKey, item.size, item.quantity),
              colorTotals |-> BumpRow(acc.colorTotals, colorFamily, item.size, item.quantity),
              totals |-> [acc.totals EXCEPT ![item.size] = @ + item.quantity],
              grandTotal |-> acc.grandTotal + item.quantity,
              builtins |-> acc.builtins
                           \cup InheritedWrite(acc.products, rowKey, item.size)
                           \cup InheritedWrite(acc.colorTotals, colorFamily, item.size)]

RECURSIVE AggFold(_, _)
AggFold(acc, its) ==
    IF Len(its) = 0 THEN acc ELSE AggFold(AggStep(acc, its[1]), Tail(its))

\* export const aggregateData = (items, orders): AggregatedData
aggregateData(its, orders) ==
    LET acc == AggFold(AggStart, its) IN
    [products |-> acc.products,
     colorTotals |-> acc.colorTotals,
     totals |-> acc.totals,
     grandTotal |-> acc.grandTotal,
     orders |-> orders]

\* what a run of aggregateData writes on built-in objects
aggregateBuiltins(its) == AggFold(AggStart, its).builtins

----------------------------------------------------------------------------
(* App.tsx: getProcessedOrders and getEarningsStats.  Amounts parsed from
   text are in hundredths.  A fee is a product of two such amounts, so fees
   and everything computed from a fee are in millionths; the arithmetic is
   exact decimal arithmetic with NaN propagated, not binary floating point. *)

\* millionths per hundredth
FeeScale == Scale * Scale

\* a + b, a - b on numbers of the same unit
NumAdd(a, b) == IF isNaN(a) \/ isNaN(b) THEN NaN ELSE Num(a.v + b.v)
NumSub(a, b) == IF isNaN(a) \/ isNaN(b) THEN NaN ELSE Num(a.v - b.v)

\* a hundredths amount as millionths
ToMicro(a) == IF isNaN(a) THEN NaN ELSE Num(a.v * FeeScale)

\* x || 0 on a number: NaN and 0 are falsy
OrZeroNum(x) == IF isNaN(x) \/ x.v = 0 THEN Num(0) ELSE x

\* the fee without the fixed part
ShopifyFee_PercentOnly(total, percent, fixed) ==
    IF isNaN(total) \/ isNaN(percent) \/ isNaN(fixed) THEN NaN
    ELSE Num(total.v * percent.v)

\* App.tsx:310-311: o.total * (currentShopifyPercent / 100) + currentShopifyFixed,
\* in millionths
ShopifyFee(total, percent, fixed) ==
    IF isNaN(total) \/ isNaN(percent) \/ isNaN(fixed) THEN NaN
    ELSE Num(total.v * percent.v + fixed.v * FeeScale)

\* App.tsx:307-319: data.orders.map(...)
MapOrders(orders, percentText, fixedText) ==
    LET currentShopifyPercent == OrZeroNum(parseFloat(percentText))
        currentShopifyFixed == OrZeroNum(parseFloat(fixedText))
    IN  [i \in 1..Len(orders) |->
            LET o == orders[i]
                shopifyFeeVal == ShopifyFee(o.total, currentShopifyPercent, currentShopifyFixed)
            IN  [id |-> o.id, name |-> o.name, date |-> o.date, total |-> o.total,
                 subtotal |-> o.subtotal, shippingCost |-> o.shippingCost,
                 netEarnings |-> o.netEarnings,
                 shopifyFee |-> shopifyFeeVal,
                 netAfterFees |-> NumSub(ToMicro(o.subtotal), shopifyFeeVal)]]

\* the number the comparator subtracts for an order
SortKey(o, field) == IF field = "date" THEN o.date.time ELSE o.netAfterFees

\* App.tsx:323-331: the comparator's result for a and b
Compare(a, b, field, direction) ==
    LET cmp == NumSub(SortKey(a, field), SortKey(b, field)) IN
    IF isNaN(cmp) THEN NaN
    ELSE IF direction = "asc" THEN cmp ELSE Num(0 - cmp.v)

OrderingsOf(n) == {f \in [1..n -> 1..n] : \A i, j \in 1..n : f[i] = f[j] => i = j}

\* App.tsx:322-331: orders.sort(comparator).  The sort is stable; with a
\* comparator that returns NaN for some pair the order is left to the
\* implementation, so every order is a possible outcome.
SortOutcomes(orders, field, direction) ==
    LET n == Len(orders)
        anyNaN == \E i \in 1..n : isNaN(SortKey(orders[i], field))
        sorted(f) == \A i, j \in 1..n : i < j =>
                        LET c == Compare(orders[f[i]], orders[f[j]], field, direction) IN
                        c.v < 0 \/ (c.v = 0 /\ f[i] < f[j])
    IN  {[i \in 1..n |-> orders[f[i]]] : f \in {g \in OrderingsOf(n) : anyNaN \/ sorted(g)}}

\* App.tsx:301-340: the arrays a call of getProcessedOrders can return
getProcessedOrders(d, percentText, fixedText, field, direction) ==
    IF d = NoData THEN {<<>>}
    ELSE SortOutcomes(MapOrders(d.orders, percentText, fixedText), field, direction)

RECURSIVE Reduce(_, _, _)
\* orders.reduce((acc, o) => acc + o[field], acc0)
Reduce(orders, field, acc) ==
    IF orders = <<>> THEN acc
    ELSE Reduce(Tail(orders), field, NumAdd(acc, Head(orders)[field]))

\* getEarningsStats with the shipping setting subtracted once per order
getEarningsStats_ShippingPerOrder(orders, shippingText, blankText) ==
    LET currentShippingCost == OrZeroNum(parseFloat(shippingText))
        currentBlankCosts == OrZeroNum(parseFloat(blankText))
        totalSubtotal == Reduce(orders, "subtotal", Num(0))
        totalShopify == Reduce(orders, "shopifyFee", Num(0))
        allShipping == Num(currentShippingCost.v * Len(orders))
    IN  [totalSubtotal |-> totalSubtotal,
         totalShipping |-> currentShippingCost,
         totalShopify |-> totalShopify,
         netProfit |-> NumSub(NumSub(NumSub(ToMicro(totalSubtotal), ToMicro(allShipping)),
                                     totalShopify),
                              ToMicro(currentBlankCosts)),
         totalBlank |-> currentBlankCosts]

\* App.tsx:369-392: totalSubtotal, totalShipping and totalBlank in hundredths,
\* totalShopify and netProfit in millionths
getEarningsStats(orders, shippingText, blankText) ==
    LET currentShippingCost == OrZeroNum(parseFloat(shippingText))
        currentBlankCosts == OrZeroNum(parseFloat(blankText))
        totalSubtotal == Reduce(orders, "subtotal", Num(0))
        totalShopify == Reduce(orders, "shopifyFee", Num(0))
    IN  [totalSubtotal |-> totalSubtotal,
         totalShipping |-> currentShippingCost,
         totalShopify |-> totalShopify,
         netProfit |-> NumSub(NumSub(NumSub(ToMicro(totalSubtotal), ToMicro(currentShippingCost)),
                                     totalShopify),
                              ToMicro(currentBlankCosts)),
         totalBlank |-> currentBlankCosts]

\* /^\d*\.?\d*$/.test(val)
IsDecimalTyping(val) ==
    LET ip == DigitRun(val, 0, 0)
        rest == SubSeq(val, ip.len + 1, Len(val))
        afterDot == IF Len(rest) > 0 /\ rest[1] = "." THEN Tail(rest) ELSE rest
    IN  DigitRun(afterDot, 0, 0).len = Len(afterDot)

----------------------------------------------------------------------------
(* The files fed to the import *)

Row(q, ln, nm, ca, tot, sub) ==
    [lineitemQuantity |-> q, lineitemName |-> ln, name |-> nm,
     createdAt |-> ca, total |-> tot, subtotal |-> sub]

E == <<>>
tTee == <<"T", "e", "e">>
tMug == <<"M", "u", "g">>
tCap == <<"C", "a", "p">>
tFee == <<"F", "e", "e">>
tNavy == <<"N", "a", "v", "y">>
tBlue == <<"B", "l", "u", "e">>
tGift == <<"G", "i", "f", "t">>
tCtor == <<"c", "o", "n", "s", "t", "r", "u", "c", "t", "o", "r">>
tL == <<"L">>
tM == <<"M">>
tXl == <<"x", "l">>
tLg == <<"L", "g">>
tSp == <<" ">>
tSl == <<" ", "/", " ">>

nTeeNavyL == tTee \o NameSep \o tNavy \o tSl \o tL
nTeeXlNavy == tTee \o NameSep \o tXl \o tSl \o tNavy
nMugBlueL == tMug \o NameSep \o tBlue \o tSl \o tL
nTeeBlueM == tTee \o NameSep \o tBlue \o tSl \o tM
nCapGift == tCap \o NameSep \o tGift
nTeeCtorL == tTee \o NameSep \o tCtor \o tSl \o tL

q1 == <<"1">>
q2 == <<"2">>
q3 == <<"3">>
q0 == <<"0">>
qNeg == <<"-", "1">>
qAbc == <<"a", "b", "c">>
q3x == <<"3", "x">>

o1 == <<"#", "1">>
o2 == <<"#", "2">>
d1226 == <<"1", "2", "/", "2", "6">>
d1227 == <<"1", "2", "/", "2", "7">>
dNa == <<"n", "/", "a">>
m50 == <<"5", "0">>
m40 == <<"4", "0">>
m30 == <<"3", "0">>
m60 == <<"6", "0">>
m6681 == <<"6", "6", ".", "8", "1">>
mAbc == <<"a", "b", "c">>
mX == <<"x">>

\* rows that vary the line item: sizes, colors, families, sentinels, quantities
ItemRows ==
    { Row(q2, nTeeNavyL, E, E, E, E),
      Row(q1, nTeeXlNavy, E, E, E, E),
      Row(q2, nMugBlueL, E, E, E, E),
      Row(q1, nTeeBlueM, E, E, E, E),
      Row(q2, nCapGift, E, E, E, E),
      Row(q0, nTeeNavyL, E, E, E, E),
      Row(qNeg, nTeeNavyL, E, E, E, E),
      Row(qAbc, nTeeNavyL, o1, d1226, m50, m40),
      Row(q2, E, o1, d1226, m50, m40),
      Row(q1, nTeeCtorL, E, E, E, E),
      Row(q3x, tFee, E, E, E, E),
      Row(q1, nTeeNavyL, o1, d1226, m50, m40),
      Row(E, nTeeNavyL, o2, E, E, E) }

\* rows that vary the order header: names, dates, totals, continuation rows
OrderRows ==
    { Row(q1, nTeeNavyL, o1, d1226, m50, m40),
      Row(E, E, o1, E, E, E),
      Row(q1, nTeeNavyL, o1, d1227, m6681, m60),
      Row(E, E, o2, d1226, mAbc, m40),
      Row(q1, nTeeNavyL, o2, d1227, m30, mX),
      Row(q1, nTeeNavyL, E, d1226, m50, m40),
      Row(q1, nTeeNavyL, o2, E, m50, m40),
      Row(E, E, o1, dNa, E, E) }

\* item names generated from tokens: a prefix, then up to MaxTok suffix tokens
SuffixTokens == {NameSep, Slash, tSp, tL, tXl, tNavy, tLg}
NamePrefixes == {E, tTee \o NameSep}

RECURSIVE TokenStrings(_)
TokenStrings(n) ==
    IF n = 0 THEN {E}
    ELSE LET shorter == TokenStrings(n - 1) IN
         shorter \cup {s \o t : s \in shorter, t \in SuffixTokens}

GenNames == {p \o s : p \in NamePrefixes, s \in TokenStrings(MaxTok)}

NameRows == {Row(q1, nm, E, E, E, E) : nm \in GenNames}

----------------------------------------------------------------------------
(* App.tsx processFile: parse the file, aggregate, publish *)

\* no pure function has been called
NoCall == [fn |-> "none"]

\* undefined, as headers.find returns it (no string: its one element is not a character)
Undefined == <<"undefined">>

\* nothing rendered yet
NoRender == [null |-> TRUE]

\* an import has started: the file is being parsed
PipeInit ==
    /\ rows = <<>>
    /\ items = <<>>
    /\ ordersMap = <<>>
    /\ pc = "parsing"
    /\ data = NoData
    /\ builtins = {}
    /\ rerun = NoData

\* parseShippingCSV has been called and Papa.parse has not called back yet
ShipInit ==
    /\ shipPc = "reading"
    /\ headers = <<>>
    /\ nameKey = Undefined
    /\ costKey = Undefined
    /\ shipRows = <<>>
    /\ costs = <<>>

\* App.tsx:40-55: the useState defaults of the earnings settings
SettingsInit ==
    /\ shopifyPercent = <<"2", ".", "9">>
    /\ shopifyFixed = <<"0", ".", "3", "0">>
    /\ blankCosts = <<"0">>
    /\ shippingCost = <<"0">>
    /\ earningsSortField = "date"
    /\ earningsSortDirection = "desc"

\* JSON has no NaN, no Invalid Date and no undefined: null stands for them
JsonNull == [null |-> TRUE]

\* Date.prototype.toJSON: the ISO text of the instant, null for an Invalid Date
DateToJSON(date) == IF isNaN(date.time) THEN JsonNull ELSE [iso |-> date.time.v]

\* new Date(value) on what JSON.parse yields: the instant the ISO text names;
\* new Date(null) is the epoch
DateFromJSON(value) == IF value = JsonNull THEN [time |-> Num(0)] ELSE [time |-> Num(value.iso)]

\* JSON.stringify of a number: null for NaN
NumberToJSON(n) == IF isNaN(n) THEN JsonNull ELSE n

OrderToJSON(o) ==
    [id |-> o.id, name |-> o.name, date |-> DateToJSON(o.date),
     total |-> NumberToJSON(o.total), subtotal |-> NumberToJSON(o.subtotal),
     shippingCost |-> NumberToJSON(o.shippingCost),
     netEarnings |-> NumberToJSON(o.netEarnings)]

DataToJSON(d) ==
    IF d = NoData THEN JsonNull
    ELSE [d EXCEPT !.orders = [i \in 1..Len(d.orders) |-> OrderToJSON(d.orders[i])]]

\* App.tsx:124: JSON.stringify(toSave), as the value JSON.parse reads back
JSONstringify(toSave) == [toSave EXCEPT !.data = DataToJSON(toSave.data)]

\* the save effect writing in every render
SaveGuard_EveryRender(initialized) == TRUE

\* App.tsx:109: if (!isInitialized) return
SaveGuard(initialized) == initialized

\* App.tsx:107-128: what the save effect leaves in storage
SaveEffectWrites(stored, initialized, toSave) ==
    IF SaveGuard(initialized) THEN JSONstringify(toSave) ELSE stored

\* App.tsx:112-122: const toSave, from the state of the render the effect
\* belongs to
ToSave(d, name, dark, checked, tab, percent, fixed, blank, shipping) ==
    [data |-> d, fileName |-> name, darkMode |-> dark, checkedCells |-> checked,
     activeTab |-> tab, shopifyPercent |-> percent, shopifyFixed |-> fixed,
     blankCosts |-> blank, shippingCost |-> shipping]

\* getItem finds no item; the item is no JSON text
NoItem == [item |-> "none"]
Corrupt == [item |-> "corrupt"]
NoUpdates == [updates |-> "none"]

\* App.tsx:78-84: the Date objects of data.orders restored
RestoreDates(d) ==
    [d EXCEPT !.orders = [i \in 1..Len(d.orders) |->
                             [d.orders[i] EXCEPT !.date = DateFromJSON(d.orders[i].date)]]]

\* App.tsx:72-102: the state the set calls of the load effect ask for, cur
\* being the state of the first render.  An item that is no JSON text makes
\* JSON.parse throw before any set call.
LoadUpdates(stored, cur) ==
    IF stored = NoItem \/ stored = Corrupt THEN cur
    ELSE [data |-> IF stored.data # JsonNull THEN RestoreDates(stored.data) ELSE NoData,
          fileName |-> stored.fileName,
          darkMode |-> stored.darkMode,
          checkedCells |-> stored.checkedCells,
          activeTab |-> stored.activeTab,
          shopifyPercent |-> IF "shopifyPercent" \in DOMAIN stored
                             THEN stored.shopifyPercent ELSE cur.shopifyPercent,
          shopifyFixed |-> IF "shopifyFixed" \in DOMAIN stored
                           THEN stored.shopifyFixed ELSE cur.shopifyFixed,
          blankCosts |-> IF "blankCosts" \in DOMAIN stored
                         THEN stored.blankCosts ELSE cur.blankCosts,
          shippingCost |-> IF "shippingCost" \in DOMAIN stored
                           THEN stored.shippingCost ELSE cur.shippingCost]

\* App.tsx:9, 31, 34, 58: the App mounted on an empty storage: the load effect
\* found no item, the save effect has written the defaults
MountedInit ==
    /\ saved = NoItem
    /\ isInitialized = TRUE
    /\ darkMode = TRUE
    /\ activeTab = "sort"
    /\ mountPc = "idle"
    /\ pending = NoUpdates
    /\ storage = JSONstringify(ToSave(data, fileName, darkMode, checkedCells, activeTab,
                                      shopifyPercent, shopifyFixed, blankCosts, shippingCost))

RenderInit ==
    /\ processedOrders = <<>>
    /\ earningsStats = NoRender

\* App.tsx:25-47: the useState defaults; no import started, nothing exported
AppInit ==
    /\ loading = FALSE
    /\ fileName = Null
    /\ checkedCells = <<>>
    /\ sortField = "name"
    /\ sortDirection = "asc"
    /\ flights = <<>>
    /\ imports = 0
    /\ dataFile = Null
    /\ heap = <<>>
    /\ download = NoDownload

Init ==
    /\ PipeInit
    /\ call = NoCall
    /\ ShipInit
    /\ SettingsInit
    /\ RenderInit
    /\ AppInit
    /\ MountedInit

\* App.tsx:423, 1196: what the render after a state change computes from the
\* new state
Derive ==
    /\ processedOrders' \in getProcessedOrders(data', shopifyPercent', shopifyFixed',
                                                earningsSortField', earningsSortDirection')
    /\ earningsStats' = IF data' = NoData THEN NoRender
                        ELSE getEarningsStats(processedOrders', shippingCost', blankCosts')

\* App.tsx:107-139: the save effect that follows the render
Persist ==
    storage' = SaveEffectWrites(storage, isInitialized',
                                ToSave(data', fileName', darkMode', checkedCells', activeTab',
                                       shopifyPercent', shopifyFixed', blankCosts',
                                       shippingCost'))

\* the render after a handler's state change and the effects that follow it
Rerender ==
    /\ Derive
    /\ UNCHANGED mountCtl
    /\ Persist

\* csvParser.ts:93-174: one call of the forEach callback
ParseRow(row) ==
    /\ pc = "parsing"
    /\ rows' = Append(rows, row)
    /\ items' = items \o LineItems(row, Len(rows))
    /\ ordersMap' = OrderStep(ordersMap, row)
    /\ UNCHANGED <<pc, data, builtins, rerun, call, shipVars, appVars, mountVars, settingVars, renderVars>>

\* csvParser.ts:176: resolve({ items, orders: Array.from(ordersMap.values()) })
Resolve ==
    /\ pc = "parsing"
    /\ pc' = "parsed"
    /\ UNCHANGED <<rows, items, ordersMap, data, builtins>>
    /\ UNCHANGED <<rerun, call, shipVars, appVars, mountVars, settingVars, renderVars>>

\* App.tsx:166-167: const aggregated = aggregateData(items, orders); setData(aggregated)
Publish ==
    /\ pc = "parsed"
    /\ data' = aggregateData(items, ordersMap)
    /\ builtins' = builtins \cup aggregateBuiltins(items)
    /\ pc' = "published"
    /\ UNCHANGED <<rows, items, ordersMap>>
    /\ UNCHANGED <<rerun, call, shipVars, appVars, settingVars>>
    /\ Rerender

\* the forEach reaches the next row of a file of ItemRows, of OrderRows, or
\* the only row of a one-row file of NameRows
ReadItemRow == Len(rows) < MaxRows /\ \E row \in ItemRows : ParseRow(row)
ReadOrderRow == Len(rows) < MaxRows /\ \E row \in OrderRows : ParseRow(row)
ReadNameRow == Len(rows) = 0 /\ \E row \in NameRows : ParseRow(row)

Next == ReadItemRow \/ Resolve \/ Publish
Spec == Init /\ [][Next]_vars

NextOrders == ReadOrderRow \/ Resolve \/ Publish
SpecOrders == Init /\ [][NextOrders]_vars

NextNames == ReadNameRow \/ Resolve \/ Publish
SpecNames == Init /\ [][NextNames]_vars

----------------------------------------------------------------------------
(* Properties of aggregateData, checked on the published data *)

Published == pc = "published"

\* the sum of f[x] over the x of S
RECURSIVE SumOver(_, _)
SumOver(f, S) ==
    IF S = {} THEN 0
    ELSE LET x == CHOOSE y \in S : TRUE IN f[x] + SumOver(f, S \ {x})

\* the sum of the quantities of the items at the positions I
RECURSIVE SumQty(_, _)
SumQty(its, I) ==
    IF I = {} THEN 0
    ELSE LET i == CHOOSE j \in I : TRUE IN its[i].quantity + SumQty(its, I \ {i})

\* the sum over the product rows of their count at size s
ColumnSum(table, s) == SumOver([k \in DOMAIN table |-> table[k][s]], DOMAIN table)

\* C1: in the published AggregatedData, totals[s] is the sum of products[row][s]
\* over all product rows for each of the seven canonical sizes, and grandTotal
\* is the sum of totals[s] over the seven canonical sizes.
C1_TotalsAreColumnSums ==
    Published =>
        /\ \A s \in SizeSet : data.totals[s] = ColumnSum(data.products, s)
        /\ data.grandTotal = SumOver(data.totals, SizeSet)

\* C1 witness: two product rows, one of them counted at two sizes
C1_Witness ==
    /\ Published
    /\ Cardinality(DOMAIN data.products) >= 2
    /\ \E k \in DOMAIN data.products : \E s1, s2 \in SizeSet :
          s1 # s2 /\ data.products[k][s1] > 0 /\ data.products[k][s2] > 0
    /\ data.grandTotal >= 3

\* the positions of the items whose size is canonical
CanonicalAt(its) == {i \in 1..Len(its) : its[i].size \in SizeSet}
RowKeyOf(item) == item.productName \o NameSep \o item.color

\* C2: an item is counted in products, colorTotals, totals and grandTotal if
\* and only if its size is canonical: grandTotal and totals are the sums of
\* the quantities of exactly those items, the product rows and color-family
\* rows are exactly theirs and hold the sums of their quantities; an item of
\* any other size changes nothing and creates no row.
C2_CountsExactlyCanonical ==
    Published =>
        LET C == CanonicalAt(items) IN
        /\ data.grandTotal = SumQty(items, C)
        /\ \A s \in SizeSet :
              data.totals[s] = SumQty(items, {i \in C : items[i].size = s})
        /\ DOMAIN data.products = {RowKeyOf(items[i]) : i \in C}
        /\ \A k \in DOMAIN data.products : \A s \in SizeSet :
              data.products[k][s] =
                  SumQty(items, {i \in C : RowKeyOf(items[i]) = k /\ items[i].size = s})
        /\ DOMAIN data.colorTotals = {detectColorFamily(items[i].color) : i \in C}
        /\ \A f \in DOMAIN data.colorTotals : \A s \in SizeSet :
              data.colorTotals[f][s] =
                  SumQty(items, {i \in C : detectColorFamily(items[i].color) = f
                                           /\ items[i].size = s})

\* C3: in the published AggregatedData the totals map, every row of products
\* and every row of colorTotals has all seven canonical sizes as keys, also
\* when no item was counted.
C3_AllSizesPresent ==
    Published =>
        /\ DOMAIN data.totals = SizeSet
        /\ \A k \in DOMAIN data.products : DOMAIN data.products[k] = SizeSet
        /\ \A f \in DOMAIN data.colorTotals : DOMAIN data.colorTotals[f] = SizeSet

\* C3 witness: a file whose items all have non-canonical sizes, published
\* with every total at zero and no row
C3_Witness ==
    /\ Published
    /\ Len(items) >= 2
    /\ CanonicalAt(items) = {}
    /\ \A s \in SizeSet : data.totals[s] = 0
    /\ DOMAIN data.products = {}

----------------------------------------------------------------------------
(* Properties of the order extraction of parseCSV *)

\* the orders parseCSV resolves with: Array.from(ordersMap.values())
Resolved == pc \in {"parsed", "published"}

\* the rows read that carry the order name n and a non-empty "Created at"
DatedRowsOf(n) == {i \in 1..Len(rows) : rows[i].name = n /\ Len(rows[i].createdAt) > 0}
RowsOf(n) == {i \in 1..Len(rows) : rows[i].name = n}
OrdersOf(n) == {j \in 1..Len(ordersMap) : ordersMap[j].name = n}
RowNames == {rows[i].name : i \in 1..Len(rows)}

FirstDatedRow(n) == CHOOSE i \in DatedRowsOf(n) : \A k \in DatedRowsOf(n) : i <= k

Unparseable(text) ==
    LET t == trimStart(text)
        body == IF Len(t) > 0 /\ (t[1] = "-" \/ t[1] = "+") THEN Tail(t) ELSE t
    IN  ~ \/ (Len(body) >= 1 /\ IsDigit(body[1]))
          \/ (Len(body) >= 2 /\ body[1] = "." /\ IsDigit(body[2]))

\* C6: when the Total (Subtotal) of an order header row does not parse as a
\* number, the created Order has total (subtotal) 0.
C6_UnparseableMoneyIsZero ==
    \A j \in 1..Len(ordersMap) :
        LET r == rows[FirstDatedRow(ordersMap[j].name)] IN
        /\ Unparseable(r.total) => ordersMap[j].total = Num(0)
        /\ Unparseable(r.subtotal) => ordersMap[j].subtotal = Num(0)

----------------------------------------------------------------------------
(* Properties of the line items of parseCSV *)

\* C7: every LineItem produced by parseCSV has a quantity strictly greater
\* than 0.
C7_QuantityPositive == \A i \in 1..Len(items) : items[i].quantity > 0

\* the id parseCSV gives the item of the k-th row (k counted from 1)
ItemIdOf(k) == ToStr(k - 1) \o <<"-">> \o rows[k].lineitemName
ItemsOfRow(k) == {i \in 1..Len(items) : items[i].id = ItemIdOf(k)}

\* the text is an integer: an optional sign and digits, white space around
IsIntegerText(text) ==
    LET t == trim(text)
        body == IF Len(t) > 0 /\ (t[1] = "-" \/ t[1] = "+") THEN Tail(t) ELSE t
    IN  Len(body) > 0 /\ \A i \in 1..Len(body) : IsDigit(body[i])

\* the text begins, after white space and an optional sign, with a digit
HasLeadingInteger(text) ==
    LET t == trimStart(text)
        body == IF Len(t) > 0 /\ (t[1] = "-" \/ t[1] = "+") THEN Tail(t) ELSE t
    IN  Len(body) > 0 /\ IsDigit(body[1])

\* the row creates an order: it has a Name and a "Created at", and no earlier
\* row with that Name has a "Created at"
RowCreatesOrder(k) ==
    /\ Len(rows[k].name) > 0
    /\ Len(rows[k].createdAt) > 0
    /\ \A m \in DatedRowsOf(rows[k].name) : k <= m

\* C8 as stated: a row yields no LineItem if its quantity text is not a valid
\* integer or its name is empty, and exactly one otherwise; a dropped row
\* still contributes its Order.
C8_DropsInvalidInteger ==
    \A k \in 1..Len(rows) :
        /\ IF ~IsIntegerText(rows[k].lineitemQuantity) \/ Len(rows[k].lineitemName) = 0
           THEN ItemsOfRow(k) = {}
           ELSE Cardinality(ItemsOfRow(k)) = 1
        /\ RowCreatesOrder(k) => OrdersOf(rows[k].name) # {}

\* C8 amended: a row yields no LineItem if its quantity text does not begin
\* (after white space and an optional sign) with a digit or its name is
\* empty, and exactly one otherwise (text after the leading digits, as in
\* "3x", is ignored); the rows after a dropped row are still read and a
\* dropped row still contributes its Order.
C8_DropsNoLeadingInteger ==
    /\ \A k \in 1..Len(rows) :
        /\ IF ~HasLeadingInteger(rows[k].lineitemQuantity) \/ Len(rows[k].lineitemName) = 0
           THEN ItemsOfRow(k) = {}
           ELSE Cardinality(ItemsOfRow(k)) = 1
        /\ RowCreatesOrder(k) => OrdersOf(rows[k].name) # {}
    /\ \A i \in 1..Len(items) : \E k \in 1..Len(rows) : i \in ItemsOfRow(k)

\* C8 witness: a row dropped for its quantity text creates an order, a row
\* with trailing text after the digits yields an item, and a later row
\* yields an item as well
C8_Witness ==
    \E k, m, n \in 1..Len(rows) :
        /\ k < n
        /\ ~HasLeadingInteger(rows[k].lineitemQuantity)
        /\ Len(rows[k].lineitemName) > 0
        /\ ItemsOfRow(k) = {}
        /\ RowCreatesOrder(k) /\ OrdersOf(rows[k].name) # {}
        /\ ~IsIntegerText(rows[m].lineitemQuantity) /\ Cardinality(ItemsOfRow(m)) = 1
        /\ Cardinality(ItemsOfRow(n)) = 1

\* the one row of a single-row file, its item, and the suffix of its name
TheRow == rows[1]
TheItem == items[1]
NameSegments == split(TheRow.lineitemName, NameSep)
TheSuffix == NameSegments[Len(NameSegments)]
OneRowWithSuffix == Len(rows) = 1 /\ Len(items) = 1 /\ Len(NameSegments) >= 2

\* C9: when the suffix splits on "/" into exactly two trimmed parts A and B:
\* if A normalizes, size is A's canonical size and color is B (also when B
\* normalizes too); otherwise if B normalizes, size is B's canonical size and
\* color is A; if neither does, color is the whole suffix and size "Unknown".
C9_TwoPartSuffix ==
    (OneRowWithSuffix /\ Len(split(TheSuffix, Slash)) = 2) =>
        LET A == trim(split(TheSuffix, Slash)[1])
            B == trim(split(TheSuffix, Slash)[2])
        IN  /\ normalizeSize(A) # Null =>
                  TheItem.size = normalizeSize(A) /\ TheItem.color = B
            /\ (normalizeSize(A) = Null /\ normalizeSize(B) # Null) =>
                  TheItem.size = normalizeSize(B) /\ TheItem.color = A
            /\ (normalizeSize(A) = Null /\ normalizeSize(B) = Null) =>
                  TheItem.size = Unknown /\ TheItem.color = TheSuffix

\* C9 witness: both parts are sizes, of different canonical sizes, the first
\* written with white space around it, and the item has the first one's size
C9_Witness ==
    /\ OneRowWithSuffix
    /\ Len(split(TheSuffix, Slash)) = 2
    /\ LET A == trim(split(TheSuffix, Slash)[1])
           B == trim(split(TheSuffix, Slash)[2])
       IN  /\ normalizeSize(A) # Null /\ normalizeSize(B) # Null
           /\ normalizeSize(A) # normalizeSize(B)
           /\ A # split(TheSuffix, Slash)[1]
           /\ TheItem.size = normalizeSize(A)
           /\ TheItem.color = B

\* C10: when the suffix has exactly one "/"-separated part (no "/"): if it is
\* a recognized size token the item has its canonical size and color
\* "Standard"; otherwise color is the suffix and size is "One Size".
C10_OnePartSuffix ==
    (OneRowWithSuffix /\ Len(split(TheSuffix, Slash)) = 1) =>
        IF \E i \in 1..Len(SIZE_MAPPING) : SIZE_MAPPING[i][1] = toUpperCase(TheSuffix)
        THEN /\ TheItem.size \in SizeSet
             /\ \E i \in 1..Len(SIZE_MAPPING) :
                   /\ SIZE_MAPPING[i][1] = toUpperCase(TheSuffix)
                   /\ SIZE_MAPPING[i][2] = TheItem.size
             /\ TheItem.color = Standard
        ELSE /\ TheItem.color = TheSuffix
             /\ TheItem.size = OneSize

\* C10 witness: a suffix that is a size token written in lower case
C10_Witness ==
    /\ OneRowWithSuffix
    /\ Len(split(TheSuffix, Slash)) = 1
    /\ TheSuffix = tXl
    /\ TheItem.size = sXL
    /\ TheItem.color = Standard

\* C11: an item name without " - " yields productName = the whole name,
\* color "Unknown" and size "Unknown"; a name with one or more separators
\* yields productName = all segments but the last rejoined with " - ", so
\* that productName + " - " + suffix is the raw name.
C11_ProductNameAndSuffix ==
    (Len(rows) = 1 /\ Len(items) = 1) =>
        IF ~includes(TheRow.lineitemName, NameSep)
        THEN /\ TheItem.productName = TheRow.lineitemName
             /\ TheItem.color = Unknown
             /\ TheItem.size = Unknown
        ELSE /\ TheItem.productName =
                    join(SubSeq(NameSegments, 1, Len(NameSegments) - 1), NameSep)
             /\ TheItem.productName \o NameSep \o TheSuffix = TheRow.lineitemName
             /\ ~includes(TheSuffix, NameSep)

\* C11 witness: a name of three segments, the product name holding the
\* first two and their separator
C11_Witness ==
    /\ Len(rows) = 1 /\ Len(items) = 1
    /\ Len(NameSegments) = 3
    /\ Len(NameSegments[1]) > 0 /\ Len(NameSegments[2]) > 0 /\ Len(TheSuffix) > 0
    /\ includes(TheItem.productName, NameSep)
    /\ TheItem.productName \o NameSep \o TheSuffix = TheRow.lineitemName

----------------------------------------------------------------------------
(* Calls of the pure functions normalizeSize and detectColorFamily *)

\* the characters generated size tokens are made of
SizeAlphabet == {"X", "S", "L", "M", "x", "s", "l", "2", " "}

RECURSIVE CharStrings(_)
CharStrings(n) ==
    IF n = 0 THEN {E}
    ELSE LET shorter == CharStrings(n - 1) IN
         shorter \cup {t \o <<c>> : t \in shorter, c \in SizeAlphabet}

\* a token with its first letter in upper case and the rest in lower case
Capitalized(t) == [i \in 1..Len(t) |-> IF i = 1 THEN UpperCh(t[i]) ELSE LowerCh(t[i])]

MappingKeys == {SIZE_MAPPING[i][1] : i \in 1..Len(SIZE_MAPPING)}

\* the arguments normalizeSize is called with: every short string over
\* SizeAlphabet, every key of the table as written, in lower case and
\* capitalized, keys with white space around, and other words
SizeInputs ==
    CharStrings(MaxSizeLen)
    \cup MappingKeys
    \cup {toLowerCase(k) : k \in MappingKeys}
    \cup {Capitalized(k) : k \in MappingKeys}
    \cup {k \o tSp : k \in MappingKeys}
    \cup {tNavy, tCtor, <<"4", "X", "L">>, <<"X", "X", "S">>, <<"X", "X", "X", "X", "L">>}

\* the colors detectColorFamily is called with: up to MaxColorTok tokens
ColorTokens ==
    {kBlack, <<"W", "h", "i", "t", "e">>, kBrown, <<"S", "t", "o", "r", "m">>,
     <<"B", "L", "U", "E">>, tNavy, tSp, <<"b", "l">>, <<"a", "c", "k">>}

RECURSIVE ColorStrings(_)
ColorStrings(n) ==
    IF n = 0 THEN {E}
    ELSE LET shorter == ColorStrings(n - 1) IN
         shorter \cup {t \o c : t \in shorter, c \in ColorTokens}

ColorInputs == ColorStrings(MaxColorTok)

Calling(fn, arg) == [fn |-> fn, arg |-> arg, returned |-> FALSE, result |-> Null]

CallsInit ==
    /\ PipeInit
    /\ ShipInit
    /\ SettingsInit
    /\ RenderInit
    /\ AppInit
    /\ MountedInit
    /\ call \in {Calling("normalizeSize", a) : a \in SizeInputs}
                \cup {Calling("detectColorFamily", a) : a \in ColorInputs}

\* csvParser.ts:251-256: the call returns
CallNormalizeSize ==
    /\ call.fn = "normalizeSize"
    /\ ~call.returned
    /\ call' = [call EXCEPT !.returned = TRUE, !.result = normalizeSize(call.arg)]
    /\ UNCHANGED <<pipeVars, rerun, shipVars, appVars, mountVars, settingVars, renderVars>>

\* csvParser.ts:69-80: the call returns
CallDetectColorFamily ==
    /\ call.fn = "detectColorFamily"
    /\ ~call.returned
    /\ call' = [call EXCEPT !.returned = TRUE, !.result = detectColorFamily(call.arg)]
    /\ UNCHANGED <<pipeVars, rerun, shipVars, appVars, mountVars, settingVars, renderVars>>

NextCalls == CallNormalizeSize \/ CallDetectColorFamily
SpecCalls == CallsInit /\ [][NextCalls]_vars

\* the documented synonym table: the tokens of each canonical size
DocumentedTokens(size) ==
    IF size = sXS THEN {<<"X", "S">>, <<"X", "S", "M", "A", "L", "L">>}
    ELSE IF size = sSMALL THEN {<<"S">>, <<"S", "M", "A", "L", "L">>, <<"S", "M">>}
    ELSE IF size = sMEDIUM THEN {<<"M">>, <<"M", "E", "D", "I", "U", "M">>, <<"M", "D">>}
    ELSE IF size = sLARGE THEN {<<"L">>, <<"L", "A", "R", "G", "E">>, <<"L", "G">>}
    ELSE IF size = sXL THEN {<<"X", "L">>, <<"X", "L", "A", "R", "G", "E">>}
    ELSE IF size = s2XL THEN {<<"2", "X", "L">>, <<"X", "X", "L">>, <<"2", "X">>}
    ELSE {<<"3", "X", "L">>, <<"X", "X", "X", "L">>, <<"3", "X">>}

SizeReturned == call.fn = "normalizeSize" /\ call.returned

\* C12: normalizeSize upper-cases its token and returns the canonical size
\* whose documented tokens hold it; for every other token, the empty string
\* included, it returns the no-match value; the result is always no-match or
\* one of the seven canonical sizes.
C12_NormalizeSizeTable ==
    SizeReturned =>
        LET u == toUpperCase(call.arg) IN
        /\ \A size \in SizeSet : u \in DocumentedTokens(size) => call.result = size
        /\ (\A size \in SizeSet : u \notin DocumentedTokens(size)) => call.result = Null
        /\ call.result \in SizeSet \cup {Null}

\* C12 witness: a token written in lower case is normalized to 3XL
C12_Witness ==
    /\ SizeReturned
    /\ call.arg = <<"x", "x", "x", "l">>
    /\ call.result = s3XL

ColorReturned == call.fn = "detectColorFamily" /\ call.returned

FamilyKeywords == <<kBlack, kWhite, kBrown, kStorm, kBlue>>

\* C13: detectColorFamily returns the first keyword, in the order black,
\* white, brown, storm, blue, that occurs in the lower-cased color; if none
\* occurs it returns the color as given.
C13_FirstKeywordWins ==
    ColorReturned =>
        LET lower == toLowerCase(call.arg)
            hits == {i \in 1..Len(FamilyKeywords) : includes(lower, FamilyKeywords[i])}
        IN  IF hits = {} THEN call.result = call.arg
            ELSE \E i \in hits :
                    /\ \A j \in hits : i <= j
                    /\ call.result = FamilyKeywords[i]

\* C13 witness: a color with "White" written before "black" maps to black
C13_Witness ==
    /\ ColorReturned
    /\ call.arg = <<"W", "h", "i", "t", "e">> \o tSp \o kBlack
    /\ call.result = kBlack

----------------------------------------------------------------------------
(* parseShippingCSV (csvParser.ts:189-249) *)

\* column names of shipping files
hOrderName == <<"O", "r", "d", "e", "r", " ", "n", "a", "m", "e">>
hOrderId == <<"O", "r", "d", "e", "r", " ", "i", "d">>
hShipCharge == <<"S", "h", "i", "p", "p", "i", "n", "g", " ", "c", "h", "a", "r", "g", "e">>
hDate == <<"D", "a", "t", "e">>
hCost == <<"C", "o", "s", "t">>
hName == <<"N", "a", "m", "e">>
hAmount == <<"A", "m", "o", "u", "n", "t">>
hLabelName == <<"L", "a", "b", "e", "l", " ", "n", "a", "m", "e">>
hPrice == <<"P", "r", "i", "c", "e">>
hOrder == <<"O", "r", "d", "e", "r">>
hFee == <<"F", "e", "e">>
hRef == <<"R", "e", "f">>
hOrderIdWide == <<"O", "R", "D", "E", "R", " ", " ", "I", "D">>
hShipChargeWide == <<"S", "H", "I", "P", "P", "I", "N", "G", " ", " ", " ", "C", "h", "a", "r", "g", "e">>

\* cells of shipping rows
c1002 == <<"1", "0", "0", "2">>
cH1002 == <<"#", "1", "0", "0", "2">>
cPad1002 == <<" ", "1", "0", "0", "2", " ">>
cH1003 == <<"#", "1", "0", "0", "3">>
c1003 == <<"1", "0", "0", "3">>
cUsd1250 == <<"$", "1", "2", ".", "5", "0">>
c7 == <<"7">>
cAbc == <<"a", "b", "c">>
cNeg3 == <<"-", "3">>
c1m2 == <<"1", "-", "2">>
c5 == <<"5">>
c3 == <<"3">>
cDash == <<"-">>
cBlank == <<" ">>

kOrder == <<"o", "r", "d", "e", "r">>
kName == <<"n", "a", "m", "e">>
kId == <<"i", "d">>
kShipping == <<"s", "h", "i", "p", "p", "i", "n", "g">>
kCharge == <<"c", "h", "a", "r", "g", "e">>
kCost == <<"c", "o", "s", "t">>
kAmount == <<"a", "m", "o", "u", "n", "t">>
kPrice == <<"p", "r", "i", "c", "e">>
kLabel == <<"l", "a", "b", "e", "l">>
Hash == <<"#">>

\* the regular expression a\s*b : a, any run of white space, then b
MatchSpaced(s, a, b) ==
    \E i \in 1..(Len(s) + 1), k \in 0..Len(s) :
        /\ MatchAt(s, a, i)
        /\ \A j \in (i + Len(a))..(i + Len(a) + k - 1) : j <= Len(s) /\ IsSpace(s[j])
        /\ MatchAt(s, b, i + Len(a) + k)

\* /order\s*name|order\s*id|name/i.test(h)
NameTest(h) ==
    LET lower == toLowerCase(h) IN
    \/ MatchSpaced(lower, kOrder, kName)
    \/ MatchSpaced(lower, kOrder, kId)
    \/ includes(lower, kName)

\* /shipping\s*charge|cost|amount|price|label/i.test(h)
CostTest(h) ==
    LET lower == toLowerCase(h) IN
    \/ MatchSpaced(lower, kShipping, kCharge)
    \/ includes(lower, kCost)
    \/ includes(lower, kAmount)
    \/ includes(lower, kPrice)
    \/ includes(lower, kLabel)

\* the two patterns headers are tested against
NamePattern == "nameKey"
CostPattern == "costKey"
Test(pattern, h) == IF pattern = NamePattern THEN NameTest(h) ELSE CostTest(h)

\* a find that returns the last matching element
find_Last(list, pattern) ==
    LET hits == {i \in 1..Len(list) : Test(pattern, list[i])} IN
    IF hits = {} THEN Undefined
    ELSE list[CHOOSE i \in hits : \A j \in hits : j <= i]

\* Array.prototype.find: the first element passing the test, else undefined
find(list, pattern) ==
    LET hits == {i \in 1..Len(list) : Test(pattern, list[i])} IN
    IF hits = {} THEN Undefined
    ELSE list[CHOOSE i \in hits : \A j \in hits : i <= j]

\* row[key] of a row parsed with header: true; a row shorter than the header
\* line has no such field (undefined, modelled as the empty string)
Cell(hdrs, row, key) ==
    LET cols == {i \in 1..Len(hdrs) : hdrs[i] = key} IN
    IF cols = {} THEN E
    ELSE LET i == CHOOSE c \in cols : \A d \in cols : d <= c IN
         IF i <= Len(row) THEN row[i] ELSE E

\* costVal.replace(/[^0-9.-]+/g, "")
StripCost(costVal) == SelectSeq(costVal, LAMBDA c : IsDigit(c) \/ c = "." \/ c = "-")

\* the name used as it is, never given a "#"
NormalizeName_AsIs(name) == trim(name)

\* csvParser.ts:233-235: trim, then a "#" in front unless one is there
NormalizeName(name) ==
    LET normalizedName == trim(name) IN
    IF Len(normalizedName) > 0 /\ normalizedName[1] = "#"
    THEN normalizedName
    ELSE Hash \o normalizedName

CostsHas(map, name) == \E i \in 1..Len(map) : map[i].name = name

\* a set that never replaces an entry
CostsSet_KeepFirst(map, name, cost) ==
    IF CostsHas(map, name) THEN map
    ELSE Append(map, [name |-> name, cost |-> cost])

\* Map.prototype.set: replaces the value of an existing key in place, else
\* appends the entry
CostsSet(map, name, cost) ==
    IF CostsHas(map, name)
    THEN [i \in 1..Len(map) |->
            IF map[i].name = name THEN [name |-> name, cost |-> cost] ELSE map[i]]
    ELSE Append(map, [name |-> name, cost |-> cost])

\* the forEach body without the isNaN test
ShipStep_StoreNaN(map, nKey, cKey, hdrs, row) ==
    LET name == IF nKey # Undefined THEN Cell(hdrs, row, nKey) ELSE E
        costVal == IF cKey # Undefined THEN Cell(hdrs, row, cKey) ELSE <<"0">>
    IN  IF Truthy(name) /\ Truthy(costVal)
        THEN CostsSet(map, NormalizeName(name), parseFloat(StripCost(costVal)))
        ELSE map

\* the forEach body with no cost text when the cost column is unresolved
ShipStep_NoDefaultCost(map, nKey, cKey, hdrs, row) ==
    LET name == IF nKey # Undefined THEN Cell(hdrs, row, nKey) ELSE E
        costVal == IF cKey # Undefined THEN Cell(hdrs, row, cKey) ELSE E
    IN  IF Truthy(name) /\ Truthy(costVal)
        THEN LET normalizedName == NormalizeName(name)
                 cost == parseFloat(StripCost(costVal))
             IN  IF ~isNaN(cost) THEN CostsSet(map, normalizedName, cost) ELSE map
        ELSE map

\* csvParser.ts:227-243: the forEach body for one row
ShipStep(map, nKey, cKey, hdrs, row) ==
    LET name == IF nKey # Undefined THEN Cell(hdrs, row, nKey) ELSE E
        costVal == IF cKey # Undefined THEN Cell(hdrs, row, cKey) ELSE <<"0">>
    IN  IF Truthy(name) /\ Truthy(costVal)
        THEN LET normalizedName == NormalizeName(name)
                 cost == parseFloat(StripCost(costVal))
             IN  IF ~isNaN(cost) THEN CostsSet(map, normalizedName, cost) ELSE map
        ELSE map

RECURSIVE ShipFold(_, _, _, _, _)
ShipFold(map, nKey, cKey, hdrs, rws) ==
    IF rws = <<>> THEN map
    ELSE ShipFold(ShipStep(map, nKey, cKey, hdrs, Head(rws)), nKey, cKey, hdrs, Tail(rws))

\* most rows of a shipping file
MaxShipRows == 3

\* results.meta.fields of the generated shipping files
HeaderLines ==
    { <<hOrderName, hShipCharge, hDate>>,
      <<hDate, hCost, hName>>,
      <<hOrderId, hOrderName, hAmount>>,
      <<hDate, hOrderName, hCost>>,
      <<hLabelName, hPrice, hDate>>,
      <<hOrderIdWide, hShipChargeWide, hPrice>>,
      <<hPrice, hCost, hName>>,
      <<hOrderId, hOrderName, hFee>>,
      <<hRef, hCost, hDate>>,
      <<hOrder, hFee, hDate>> }

\* results.data of the generated shipping files, cell by column
ShipRowPool ==
    { <<c1002, cUsd1250, c7>>,
      <<cH1002, c7, cUsd1250>>,
      <<cH1002, cAbc, E>>,
      <<cH1002, E, cDash>>,
      <<E, c5, c1002>>,
      <<cPad1002, c3, cH1003>>,
      <<c7, cH1002, c1m2>>,
      <<c1003, cNeg3, cBlank>>,
      <<c1003>> }

ShippingInit ==
    /\ PipeInit
    /\ call = NoCall
    /\ ShipInit
    /\ SettingsInit
    /\ RenderInit
    /\ AppInit
    /\ MountedInit

ShipFrame == UNCHANGED <<pipeVars, rerun, call, settingVars, renderVars, appVars, mountVars>>

\* Papa reads the header line
PapaFields ==
    /\ shipPc = "reading"
    /\ headers = <<>>
    /\ shipRows = <<>>
    /\ \E h \in HeaderLines : headers' = h
    /\ UNCHANGED <<shipPc, nameKey, costKey, shipRows, costs>>
    /\ ShipFrame

\* Papa reads one more row
PapaRow ==
    /\ shipPc = "reading"
    /\ Len(shipRows) < MaxShipRows
    /\ \E row \in ShipRowPool : shipRows' = Append(shipRows, row)
    /\ UNCHANGED <<shipPc, headers, nameKey, costKey, costs>>
    /\ ShipFrame

\* Papa reaches the end of the file
PapaDone ==
    /\ shipPc = "reading"
    /\ shipPc' = "parsed"
    /\ UNCHANGED <<headers, nameKey, costKey, shipRows, costs>>
    /\ ShipFrame

\* Papa cannot read the file
PapaFail ==
    /\ shipPc = "reading"
    /\ shipPc' = "failed"
    /\ UNCHANGED <<headers, nameKey, costKey, shipRows, costs>>
    /\ ShipFrame

\* csvParser.ts:194-245: the complete callback
ShipComplete ==
    /\ shipPc = "parsed"
    /\ nameKey' = find(headers, NamePattern)
    /\ costKey' = find(headers, CostPattern)
    /\ costs' = ShipFold(<<>>, nameKey', costKey', headers, shipRows)
    /\ shipPc' = "resolved"
    /\ UNCHANGED <<headers, shipRows>>
    /\ ShipFrame

\* csvParser.ts:246: error: reject
ShipError ==
    /\ shipPc = "failed"
    /\ shipPc' = "rejected"
    /\ UNCHANGED <<headers, nameKey, costKey, shipRows, costs>>
    /\ ShipFrame

NextShipping ==
    \/ PapaFields
    \/ PapaRow
    \/ PapaDone
    \/ PapaFail
    \/ ShipComplete
    \/ ShipError
SpecShipping == ShippingInit /\ [][NextShipping]_vars

ShipResolved == shipPc = "resolved"
BothResolved == ShipResolved /\ nameKey # Undefined /\ costKey # Undefined

\* the key as the claim words it: "#" prepended unless the key starts with it
Hashed(key) == IF Len(key) > 0 /\ key[1] = "#" THEN key ELSE Hash \o key

RowKey(i) == Cell(headers, shipRows[i], nameKey)
RowValue(i) == Cell(headers, shipRows[i], costKey)

\* the stripped value begins a decimal number: an optional minus, then a
\* digit, or a dot followed by a digit
ParsesAsNumber(value) ==
    LET t == StripCost(value)
        u == IF Len(t) > 0 /\ t[1] = "-" THEN Tail(t) ELSE t
    IN  /\ Len(u) > 0
        /\ \/ IsDigit(u[1])
           \/ u[1] = "." /\ Len(u) > 1 /\ IsDigit(u[2])

\* the rows that contribute an entry
Contributing ==
    {i \in 1..Len(shipRows) : RowKey(i) # E /\ RowValue(i) # E /\ ParsesAsNumber(RowValue(i))}

CostKeys == {costs[i].name : i \in 1..Len(costs)}

\* C14: every key of the returned lookup starts with "#"; a contributing row's
\* key is stored with "#" prepended when it has none and unchanged when it
\* has one, so rows keyed "1002" and "#1002" share the one entry "#1002".
C14_KeysStartWithHash ==
    BothResolved =>
        /\ \A i \in 1..Len(costs) : costs[i].name[1] = "#"
        /\ \A i, j \in 1..Len(costs) : costs[i].name = costs[j].name => i = j
        /\ \A i \in Contributing : Hashed(trim(RowKey(i))) \in CostKeys
        /\ (\E i, j \in Contributing : RowKey(i) = c1002 /\ RowKey(j) = cH1002) =>
              Cardinality({k \in CostKeys : includes(k, c1002)}) = 1

\* C14 witness: rows keyed "1002" and "#1002" were parsed into one entry
C14_Witness ==
    /\ BothResolved
    /\ \E i, j \in Contributing : RowKey(i) = c1002 /\ RowKey(j) = cH1002
    /\ CostKeys = {cH1002}

\* C15: the cost stored for a key is that of the last row in file order with
\* that normalized key and a parseable cost; later unparseable or empty costs
\* leave the entry as it is.
C15_LastParseableRowWins ==
    BothResolved =>
        \A e \in 1..Len(costs) :
            LET same == {i \in Contributing : Hashed(trim(RowKey(i))) = costs[e].name} IN
            /\ same # {}
            /\ \E last \in same :
                 /\ \A i \in same : i <= last
                 /\ costs[e].cost = parseFloat(StripCost(RowValue(last)))

\* C15 witness: an entry overwritten by a second row and left alone by a third
\* row of the same key whose cost is unparseable
C15_Witness ==
    /\ BothResolved
    /\ Len(shipRows) = 3
    /\ headers = <<hOrderName, hShipCharge, hDate>>
    /\ shipRows[1] = <<c1002, cUsd1250, c7>>
    /\ shipRows[2] = <<cH1002, c7, cUsd1250>>
    /\ shipRows[3] = <<cH1002, cAbc, E>>
    /\ costs = <<[name |-> cH1002, cost |-> Num(7 * Scale)]>>

\* C16: with both columns resolved, the keys of the lookup are exactly the
\* normalized keys of the rows with a non-empty key, a non-empty value and a
\* value that parses after stripping; other rows add nothing and the parse
\* still resolves.
C16_KeySetIsContributingRows ==
    BothResolved =>
        /\ CostKeys = {Hashed(trim(RowKey(i))) : i \in Contributing}
        /\ \A e \in 1..Len(costs) : ~isNaN(costs[e].cost)

\* C16 witness: a file with an empty-key row, an unparseable row and a good
\* row resolves to the good row's entry only
C16_Witness ==
    /\ BothResolved
    /\ Len(shipRows) = 3
    /\ Cardinality(Contributing) = 1
    /\ \E i \in 1..3 : RowKey(i) = E
    /\ \E i \in 1..3 : RowKey(i) # E /\ RowValue(i) # E /\ ~ParsesAsNumber(RowValue(i))
    /\ Len(costs) = 1

FirstMatch(hdrs, pattern) ==
    IF \E i \in 1..Len(hdrs) : Test(pattern, hdrs[i])
    THEN hdrs[CHOOSE i \in 1..Len(hdrs) :
                 Test(pattern, hdrs[i]) /\ \A j \in 1..(i - 1) : ~Test(pattern, hdrs[j])]
    ELSE Undefined

\* C17: once the file is parsed the complete callback resolves with a lookup,
\* whether or not a key column or a cost column is found; each column is the
\* first header in declared order matching its pattern.
C17_ResolvesWithFirstMatches ==
    [][shipPc = "parsed" =>
          /\ shipPc' = "resolved"
          /\ nameKey' = FirstMatch(headers, NamePattern)
          /\ costKey' = FirstMatch(headers, CostPattern)
          /\ \A e \in 1..Len(costs') : costs'[e].name[1] = "#"]_vars

\* C17 witness: a file whose header line has two key columns and no cost
\* column resolved, with the first key column chosen
C17_Witness ==
    /\ ShipResolved
    /\ headers = <<hOrderId, hOrderName, hFee>>
    /\ nameKey = hOrderId
    /\ costKey = Undefined
    /\ Len(shipRows) > 0

----------------------------------------------------------------------------
(* The earnings view: an import of order rows, the settings typed into the
   earnings form, and the values each render computes (App.tsx:301-392) *)

o3 == <<"#", "3">>
m100 == <<"1", "0", "0">>
m90 == <<"9", "0">>
t20 == <<"2", "0">>
t1250 == <<"1", "2", ".", "5", "0">>
tDot == <<".">>
tZero == <<"0">>
tPercentDefault == <<"2", ".", "9">>
tFixedDefault == <<"0", ".", "3", "0">>

\* order rows: a total of 100, an earlier order with no total, an order with
\* an unparseable total and an unreadable date
EarnRows ==
    { Row(q1, nTeeNavyL, o1, d1227, m100, m90),
      Row(q1, nTeeNavyL, o2, d1226, E, m40),
      Row(q1, nTeeNavyL, o3, dNa, mAbc, m30) }

\* what is typed into each field of the earnings form
TypedPercent == {E, mAbc}
TypedFixed == {tDot, mX}
TypedShipping == {t1250, E}
TypedBlank == {t20, tDot}

\* App.tsx:981-987: onChange keeps the typed text if it is empty or digits
\* with at most one dot
OnChange(current, val) == IF val = E \/ IsDecimalTyping(val) THEN val ELSE current

\* App.tsx:988-991: onBlur turns "" and "." into "0"
OnBlur(current) == IF current = E \/ current = tDot THEN tZero ELSE current

EarnFrame == UNCHANGED <<pipeVars, rerun, call, shipVars, appVars>>

\* most rows of a file imported for the earnings view
MaxEarnRows == 2

ReadEarnRow == Len(rows) < MaxEarnRows /\ \E row \in EarnRows : ParseRow(row)

ChangeShippingCost ==
    /\ \E val \in TypedShipping : shippingCost' = OnChange(shippingCost, val)
    /\ UNCHANGED <<shopifyPercent, shopifyFixed, blankCosts, earningsSortField, earningsSortDirection>>
    /\ EarnFrame
    /\ Rerender

BlurShippingCost ==
    /\ shippingCost' = OnBlur(shippingCost)
    /\ UNCHANGED <<shopifyPercent, shopifyFixed, blankCosts, earningsSortField, earningsSortDirection>>
    /\ EarnFrame
    /\ Rerender

ChangeBlankCosts ==
    /\ \E val \in TypedBlank : blankCosts' = OnChange(blankCosts, val)
    /\ UNCHANGED <<shopifyPercent, shopifyFixed, shippingCost, earningsSortField, earningsSortDirection>>
    /\ EarnFrame
    /\ Rerender

BlurBlankCosts ==
    /\ blankCosts' = OnBlur(blankCosts)
    /\ UNCHANGED <<shopifyPercent, shopifyFixed, shippingCost, earningsSortField, earningsSortDirection>>
    /\ EarnFrame
    /\ Rerender

ChangeShopifyPercent ==
    /\ \E val \in TypedPercent : shopifyPercent' = OnChange(shopifyPercent, val)
    /\ UNCHANGED <<shopifyFixed, blankCosts, shippingCost, earningsSortField, earningsSortDirection>>
    /\ EarnFrame
    /\ Rerender

BlurShopifyPercent ==
    /\ shopifyPercent' = OnBlur(shopifyPercent)
    /\ UNCHANGED <<shopifyFixed, blankCosts, shippingCost, earningsSortField, earningsSortDirection>>
    /\ EarnFrame
    /\ Rerender

ChangeShopifyFixed ==
    /\ \E val \in TypedFixed : shopifyFixed' = OnChange(shopifyFixed, val)
    /\ UNCHANGED <<shopifyPercent, blankCosts, shippingCost, earningsSortField, earningsSortDirection>>
    /\ EarnFrame
    /\ Rerender

BlurShopifyFixed ==
    /\ shopifyFixed' = OnBlur(shopifyFixed)
    /\ UNCHANGED <<shopifyPercent, blankCosts, shippingCost, earningsSortField, earningsSortDirection>>
    /\ EarnFrame
    /\ Rerender

\* App.tsx:1143-1147
ChangeSortField ==
    /\ \E f \in {"date", "earnings"} : earningsSortField' = f
    /\ UNCHANGED <<shopifyPercent, shopifyFixed, blankCosts, shippingCost, earningsSortDirection>>
    /\ EarnFrame
    /\ Rerender

\* App.tsx:1160-1164
ChangeSortDirection ==
    /\ \E d \in {"asc", "desc"} : earningsSortDirection' = d
    /\ UNCHANGED <<shopifyPercent, shopifyFixed, blankCosts, shippingCost, earningsSortField>>
    /\ EarnFrame
    /\ Rerender

NextEarnings ==
    \/ ReadEarnRow
    \/ Resolve
    \/ Publish
    \/ ChangeShippingCost
    \/ BlurShippingCost
    \/ ChangeBlankCosts
    \/ BlurBlankCosts
    \/ ChangeShopifyPercent
    \/ BlurShopifyPercent
    \/ ChangeShopifyFixed
    \/ BlurShopifyFixed
    \/ ChangeSortField
    \/ ChangeSortDirection
SpecEarnings == Init /\ [][NextEarnings]_vars

EarningsRendered == data # NoData /\ earningsStats # NoRender

\* the text begins a decimal number: optional white space and sign, then a
\* digit, or a dot followed by a digit
BeginsNumber(text) ==
    LET t == trimStart(text)
        u == IF Len(t) > 0 /\ (t[1] = "-" \/ t[1] = "+") THEN Tail(t) ELSE t
    IN  /\ Len(u) > 0
        /\ \/ IsDigit(u[1])
           \/ u[1] = "." /\ Len(u) > 1 /\ IsDigit(u[2])

\* a setting as a number: its parsed value, 0 when it does not parse
SettingValue(text) == IF BeginsNumber(text) THEN parseFloat(text) ELSE Num(0)

RECURSIVE FieldSum(_, _, _)
FieldSum(orders, field, I) ==
    IF I = {} THEN 0
    ELSE LET i == CHOOSE j \in I : TRUE IN orders[i][field].v + FieldSum(orders, field, I \ {i})

BatchSum(orders, field) ==
    IF \E i \in 1..Len(orders) : isNaN(orders[i][field]) THEN NaN
    ELSE Num(FieldSum(orders, field, 1..Len(orders)))

\* C19: for any batch, the empty one included, totalSubtotal is the sum of
\* the subtotals, totalShopify the sum of the per-order fees, and netProfit =
\* totalSubtotal - shipping - totalShopify - blanks, the two settings counted
\* once for the batch and an unparseable setting counting as 0.
C19_BatchTotals ==
    EarningsRendered =>
        LET shipping == SettingValue(shippingCost)
            blanks == SettingValue(blankCosts)
            subtotals == BatchSum(data.orders, "subtotal")
            fees == BatchSum(processedOrders, "shopifyFee")
        IN  /\ earningsStats.totalSubtotal = subtotals
            /\ earningsStats.totalShopify = fees
            /\ earningsStats.totalShipping = shipping
            /\ earningsStats.totalBlank = blanks
            /\ earningsStats.netProfit =
                  IF isNaN(subtotals) \/ isNaN(fees) THEN NaN
                  ELSE Num(subtotals.v * FeeScale - shipping.v * FeeScale
                           - fees.v - blanks.v * FeeScale)

\* C19 witness: two orders, shipping 12.50 and blanks 20 counted once:
\* 130 - 12.50 - (2.9 + 0.30 + 0.30) - 20 = 94
C19_Witness ==
    /\ EarningsRendered
    /\ Len(processedOrders) = 2
    /\ shippingCost = t1250
    /\ blankCosts = t20
    /\ shopifyPercent = tPercentDefault
    /\ shopifyFixed = tFixedDefault
    /\ earningsStats.totalSubtotal = Num(130 * Scale)
    /\ earningsStats.totalShopify = Num(35 * 10 * FeeScale)
    /\ earningsStats.netProfit = Num(94 * Scale * FeeScale)

----------------------------------------------------------------------------
(* aggregateData run a second time on the items and orders of the import *)

\* csvParser.ts:258-295 called again with the same arguments
Rerun ==
    /\ pc = "published"
    /\ rerun = NoData
    /\ rerun' = aggregateData(items, ordersMap)
    /\ builtins' = builtins \cup aggregateBuiltins(items)
    /\ UNCHANGED <<rows, items, ordersMap, pc, data>>
    /\ UNCHANGED <<call, shipVars, appVars, mountVars, settingVars, renderVars>>

NextRerun == ReadItemRow \/ Resolve \/ Publish \/ Rerun
SpecRerun == Init /\ [][NextRerun]_vars

----------------------------------------------------------------------------
(* Suffixes of more than two parts *)

ManyPartSuffix == OneRowWithSuffix /\ Len(split(TheSuffix, Slash)) >= 3

\* C24: when the suffix of an item name contains two or more "/" (more than
\* two parts), the item has color = the whole suffix string and size
\* "One Size", even if some of the parts are recognized size tokens; the item
\* is counted in no pivot of the published data.
C24_ManyPartSuffix ==
    ManyPartSuffix =>
        /\ TheItem.color = TheSuffix
        /\ TheItem.size = OneSize
        /\ Published =>
              /\ data.grandTotal = 0
              /\ \A s \in SizeSet : data.totals[s] = 0
              /\ DOMAIN data.products = {}
              /\ DOMAIN data.colorTotals = {}

\* C24 witness: a published three-part suffix whose first part is a size token
C24_Witness ==
    /\ ManyPartSuffix
    /\ Published
    /\ Len(SuffixParts(TheSuffix)) = 3
    /\ normalizeSize(SuffixParts(TheSuffix)[1]) = sLARGE
    /\ TheItem.size = OneSize
    /\ data.grandTotal = 0

----------------------------------------------------------------------------
(* Color-family rows against the size totals *)

\* C25: for every canonical size s, the sum of colorTotals[family][s] over
\* all color-family rows equals totals[s], each counted item having added its
\* quantity to exactly one color-family row.
C25_FamilyRowsSumToTotals ==
    Published =>
        /\ \A s \in SizeSet : ColumnSum(data.colorTotals, s) = data.totals[s]
        /\ \A i \in CanonicalAt(items) :
              detectColorFamily(items[i].color) \in DOMAIN data.colorTotals

----------------------------------------------------------------------------
(* parseShippingCSV with an unresolved column *)

KeyUnresolved == ShipResolved /\ nameKey = Undefined
CostUnresolved == ShipResolved /\ nameKey # Undefined /\ costKey = Undefined

\* the rows whose key cell is a non-empty string
KeyedRows == {i \in 1..Len(shipRows) : RowKey(i) # E}

\* every row with a non-empty key has its normalized key stored with cost 0
KeyedRowsCostZero ==
    \A i \in KeyedRows :
        \E j \in 1..Len(costs) :
            costs[j] = [name |-> NormalizeName(RowKey(i)), cost |-> Num(0)]

\* C29: if the key column cannot be resolved the returned lookup is empty; if
\* the key column is resolved but the cost column is not, the lookup is not
\* empty and maps the normalized key of every row with a non-empty key to
\* cost 0.
C29_UnresolvedColumns ==
    /\ KeyUnresolved => costs = <<>>
    /\ CostUnresolved => (costs # <<>> /\ KeyedRowsCostZero)

\* C29 amended: if the key column cannot be resolved the returned lookup is
\* empty; if the key column is resolved but the cost column is not, the
\* lookup holds exactly the normalized keys of the rows with a non-empty key,
\* each with cost 0, so it is empty when the file has no such row.
C29_UnresolvedColumnsAmended ==
    /\ KeyUnresolved => costs = <<>>
    /\ CostUnresolved =>
          /\ KeyedRowsCostZero
          /\ CostKeys = {NormalizeName(RowKey(i)) : i \in KeyedRows}
          /\ \A j \in 1..Len(costs) : costs[j].cost = Num(0)

\* C29 witness: the cost column unresolved, two rows with different keys, one
\* row without a key, and a lookup of two entries at cost 0
C29_Witness ==
    /\ CostUnresolved
    /\ Cardinality(KeyedRows) >= 2
    /\ Cardinality(KeyedRows) < Len(shipRows)
    /\ Len(costs) = 2
    /\ \A j \in 1..Len(costs) : costs[j].cost = Num(0)

----------------------------------------------------------------------------
(* App.tsx: the import handlers, the checklist and the product table *)

\* most calls of processFile explored
MaxImports == 2

\* a File the user picks or drops: its name, whether the browser can read it,
\* and the rows Papa yields from it (results.data)
File(name, readable, rws) == [name |-> name, readable |-> readable, rows |-> rws]

fnA == <<"a", ".", "c", "s", "v">>
fnN == <<"n", ".", "c", "s", "v">>
fnX == <<"x", ".", "c", "s", "v">>

AppFiles ==
    { File(fnA, TRUE, << Row(q3, nTeeNavyL, o1, d1226, m50, m40),
                         Row(q1, nMugBlueL, o2, d1227, m30, m30) >>),
      File(fnN, TRUE, << Row(q2, nTeeNavyL, o2, d1227, m60, m50),
                         Row(qNeg, nMugBlueL, E, E, E, E) >>),
      File(fnX, FALSE, <<>>) }

FileNamed(name) == CHOOSE f \in AppFiles : f.name = name

\* csvParser.ts:93-174: the items the forEach has pushed after the rows from
\* position index (0-based) on
RECURSIVE ItemsFrom(_, _)
ItemsFrom(rws, index) ==
    IF index >= Len(rws) THEN <<>>
    ELSE LineItems(rws[index + 1], index) \o ItemsFrom(rws, index + 1)

\* csvParser.ts:93-174: the order map after the rows
RECURSIVE OrdersFrom(_, _)
OrdersFrom(map, rws) ==
    IF rws = <<>> THEN map ELSE OrdersFrom(OrderStep(map, Head(rws)), Tail(rws))

\* a parse that calls complete whether or not the file could be read
ParseOutcome_AlwaysComplete(file) == "resolve"

\* csvParser.ts:92-181: Papa calls complete, which resolves, or error, which
\* rejects
ParseOutcome(file) == IF file.readable THEN "resolve" ELSE "reject"

\* csvParser.ts:176: what parseCSV resolves with
parseCSV(file) ==
    [items |-> ItemsFrom(file.rows, 0), orders |-> OrdersFrom(<<>>, file.rows)]

\* flights without its i-th element
RemoveAt(seq, i) == SubSeq(seq, 1, i - 1) \o SubSeq(seq, i + 1, Len(seq))

\* `${rowKey}_${size}`
CellKey(rowKey, size) == rowKey \o <<"_">> \o size

\* App.tsx:192-209: the updater passed to setCheckedCells.  The stored values
\* are numbers, so typeof currentVal === "number" decides the present keys.
toggleCellCheck(prev, rowKey, size, totalQty, delta) ==
    LET key == CellKey(rowKey, size)
        current == IF key \in DOMAIN prev THEN prev[key] ELSE 0
        raised == current + delta
        capped == IF raised > totalQty THEN totalQty ELSE raised
        next == IF capped < 0 THEN 0 ELSE capped
    IN  (key :> next) @@ prev

\* the cells getProgressStats visits: every product row at every size
Cells(d) == (DOMAIN d.products) \X SizeSet

\* App.tsx:402-414: what one cell adds to checkedCount
CellDone(d, checked, cell) ==
    LET qty == d.products[cell[1]][cell[2]]
        key == CellKey(cell[1], cell[2])
        done == IF key \in DOMAIN checked THEN checked[key] ELSE 0
    IN  IF qty > 0
        THEN IF done < qty THEN done ELSE qty
        ELSE 0

\* App.tsx:394-420; percent is the exact fraction num / den
getProgressStats(d, checked) ==
    IF d = NoData
    THEN [checkedCount |-> 0, totalCount |-> 0, percent |-> [num |-> 0, den |-> 1]]
    ELSE LET checkedCount == SumOver([c \in Cells(d) |-> CellDone(d, checked, c)], Cells(d))
             totalCount == d.grandTotal
         IN  [checkedCount |-> checkedCount,
              totalCount |-> totalCount,
              percent |-> IF totalCount > 0
                          THEN [num |-> checkedCount * 100, den |-> totalCount]
                          ELSE [num |-> 0, den |-> 1]]

\* the collation weight of a character: white space and punctuation, then
\* digits, then letters in alphabetical order whatever their case
Punctuation == <<" ", "_", "-", ",", ".", "/", "#">>
PrimaryWeight(c) ==
    IF \E i \in 1..Len(Punctuation) : Punctuation[i] = c
    THEN CHOOSE i \in 1..Len(Punctuation) : Punctuation[i] = c
    ELSE IF IsDigit(c) THEN 10 + DigitVal(c)
    ELSE IF \E i \in 1..26 : LowerLetters[i] = LowerCh(c)
    THEN 20 + (CHOOSE i \in 1..26 : LowerLetters[i] = LowerCh(c))
    ELSE 50

\* a and b compared by the weights w of their characters, the shorter first
RECURSIVE CompareWeights(_, _, _)
CompareWeights(a, b, upperLast) ==
    IF a = <<>> /\ b = <<>> THEN 0
    ELSE IF a = <<>> THEN 0 - 1
    ELSE IF b = <<>> THEN 1
    ELSE LET wa == IF upperLast THEN (IF LowerCh(a[1]) = a[1] THEN 0 ELSE 1)
                   ELSE PrimaryWeight(a[1])
             wb == IF upperLast THEN (IF LowerCh(b[1]) = b[1] THEN 0 ELSE 1)
                   ELSE PrimaryWeight(b[1])
         IN  IF wa < wb THEN 0 - 1
             ELSE IF wa > wb THEN 1
             ELSE CompareWeights(Tail(a), Tail(b), upperLast)

\* a.localeCompare(b) in the default locale: the letters decide, then their
\* case, lower case first
localeCompare(a, b) ==
    LET primary == CompareWeights(a, b, FALSE) IN
    IF primary # 0 THEN primary ELSE CompareWeights(a, b, TRUE)

\* App.tsx:216-223: Object.entries(data.products).map(...)
ProductEntries(d) ==
    {[name |-> k, sizes |-> d.products[k], total |-> SumOver(d.products[k], SizeSet)] :
        k \in DOMAIN d.products}

\* App.tsx:226-234: the comparator's result for a and b
ProductCompare(a, b, field, direction) ==
    LET cmp == IF field = "name" THEN localeCompare(a.name, b.name) ELSE a.total - b.total
    IN  IF direction = "asc" THEN cmp ELSE 0 - cmp

\* App.tsx:212-238: the arrays a call of getProcessedProducts can return.  The
\* sort is stable; rows the comparator leaves equal keep the key order of
\* data.products, which the products map of this model does not record, so
\* every order of such rows is a possible outcome.
getProcessedProducts(d, field, direction) ==
    IF d = NoData THEN {<<>>}
    ELSE LET entries == ProductEntries(d)
             n == Cardinality(entries)
         IN  {arr \in [1..n -> entries] :
                 /\ \A i, j \in 1..n : arr[i] = arr[j] => i = j
                 /\ \A i, j \in 1..n :
                       i < j => ProductCompare(arr[i], arr[j], field, direction) <= 0}

\* Number.prototype.toString of an integer
NumberToString(n) == IF n < 0 THEN <<"-">> \o ToStr(0 - n) ELSE ToStr(n)

\* item.name.replace(/,/g, "")
RemoveCommas(str) == SelectSeq(str, LAMBDA c : c # ",")

tDone == <<"D", "O", "N", "E", " ", "(">>
tOf == <<" ", "/", " ">>
tProductColor ==
    <<"P", "r", "o", "d", "u", "c", "t", " ", "/", " ", "C", "o", "l", "o", "r">>
tTotal == <<"T", "o", "t", "a", "l">>

\* App.tsx:260-282: the text of one cell of the exported row
ExportCell(item, size, checked, withProgress) ==
    LET qty == item.sizes[size]
        key == CellKey(item.name, size)
        count == IF key \in DOMAIN checked THEN checked[key] ELSE 0
    IN  IF withProgress /\ qty > 0 /\ count >= qty
        THEN tDone \o NumberToString(qty) \o <<")">>
        ELSE IF withProgress /\ qty > 0 /\ count > 0
        THEN NumberToString(count) \o tOf \o NumberToString(qty)
        ELSE NumberToString(qty)

\* App.tsx:257-285: rowData.join(",") of one product row
ExportLine(item, checked, withProgress) ==
    join(<<RemoveCommas(item.name)>>
         \o [i \in 1..Len(ORDERED_SIZES) |->
                ExportCell(item, ORDERED_SIZES[i], checked, withProgress)]
         \o <<NumberToString(item.total)>>, <<",">>)

\* App.tsx:254-296: the download attribute and the lines of csvContent, as
\* they are before encodeURI
exportData(processed, checked, withProgress) ==
    [download |-> IF withProgress THEN "progress" ELSE "blank",
     lines |-> <<join(<<tProductColor>> \o ORDERED_SIZES \o <<tTotal>>, <<",">>)>>
               \o [i \in 1..Len(processed) |->
                      ExportLine(processed[i], checked, withProgress)]]

\* Array.prototype.map writing its results into the array it reads
ArrayMap_InPlace(ref) == ref

\* Array.prototype.map returns a new array: reference 0 is an array no
\* published object holds; reference r > 0 is the orders array of heap[r]
ArrayMap(ref) == 0

\* the object `data` refers to: the last one handed to setData
Top(h) == IF h = <<>> THEN NoData ELSE h[Len(h)]

\* orders.sort(...) on the array with reference target (App.tsx:322)
SortInto(h, target, sorted) ==
    IF target = 0 THEN h ELSE [h EXCEPT ![target].orders = sorted]

\* App.tsx:301-340, 423: the render after the handler's state changes, h
\* being the published objects after them
AppRender(h) ==
    /\ processedOrders' \in getProcessedOrders(Top(h), shopifyPercent', shopifyFixed',
                                                earningsSortField', earningsSortDirection')
    /\ heap' = SortInto(h, ArrayMap(Len(h)), processedOrders')
    /\ data' = Top(heap')
    /\ earningsStats' = IF data' = NoData THEN NoRender
                        ELSE getEarningsStats(processedOrders', shippingCost', blankCosts')
    /\ UNCHANGED mountCtl
    /\ Persist

AppFrame == UNCHANGED <<rows, items, ordersMap, pc, rerun, call, shipVars, settingVars>>

\* App.tsx:153-159, 178-182, 161-165: handleFileUpload or handleDrop calls
\* processFile, which runs up to await parseCSV(file)
StartImport(file) ==
    /\ AppFrame
    /\ imports < MaxImports
    /\ loading' = TRUE
    /\ fileName' = file.name
    /\ flights' = Append(flights, file)
    /\ imports' = imports + 1
    /\ UNCHANGED <<checkedCells, sortField, sortDirection, dataFile, download, builtins>>
    /\ AppRender(heap)

\* App.tsx:165-167, 173-175: parseCSV has resolved for the i-th suspended call;
\* aggregateData, setData, and the finally block
CompleteImport(i) ==
    /\ AppFrame
    /\ ParseOutcome(flights[i]) = "resolve"
    /\ dataFile' = flights[i].name
    /\ loading' = FALSE
    /\ flights' = RemoveAt(flights, i)
    /\ UNCHANGED <<fileName, checkedCells, sortField, sortDirection, imports, download>>
    /\ LET parsed == parseCSV(flights[i])
           aggregated == aggregateData(parsed.items, parsed.orders)
       IN  /\ builtins' = builtins \cup aggregateBuiltins(parsed.items)
           /\ AppRender(Append(heap, aggregated))

\* App.tsx:169-175: parseCSV has rejected for the i-th suspended call;
\* console.error, alert, and the finally block
FailImport(i) ==
    /\ AppFrame
    /\ ParseOutcome(flights[i]) = "reject"
    /\ loading' = FALSE
    /\ flights' = RemoveAt(flights, i)
    /\ UNCHANGED <<fileName, checkedCells, sortField, sortDirection, imports, dataFile,
                   download, builtins>>
    /\ AppRender(heap)

\* App.tsx:727-738, 186-210: a click (+1) or context-menu click (-1) on a cell
\* with a quantity
ToggleCell(rowKey, size, delta) ==
    /\ AppFrame
    /\ data # NoData
    /\ rowKey \in DOMAIN data.products
    /\ data.products[rowKey][size] > 0
    /\ checkedCells' = toggleCellCheck(checkedCells, rowKey, size,
                                       data.products[rowKey][size], delta)
    /\ UNCHANGED <<loading, fileName, sortField, sortDirection, flights, imports, dataFile,
                   download, builtins>>
    /\ AppRender(heap)

\* App.tsx:647-649
SetSortField(value) ==
    /\ AppFrame
    /\ data # NoData
    /\ value # sortField
    /\ sortField' = value
    /\ UNCHANGED <<loading, fileName, checkedCells, sortDirection, flights, imports,
                   dataFile, download, builtins>>
    /\ AppRender(heap)

\* App.tsx:662-664
SetSortDirection(value) ==
    /\ AppFrame
    /\ data # NoData
    /\ value # sortDirection
    /\ sortDirection' = value
    /\ UNCHANGED <<loading, fileName, checkedCells, sortField, flights, imports,
                   dataFile, download, builtins>>
    /\ AppRender(heap)

\* App.tsx:627, 633, 241-298: Export Clean or Export Progress
ExportData(withProgress) ==
    /\ AppFrame
    /\ data # NoData
    /\ \E processed \in getProcessedProducts(data, sortField, sortDirection) :
          download' = exportData(processed, checkedCells, withProgress)
    /\ UNCHANGED <<loading, fileName, checkedCells, sortField, sortDirection, flights,
                   imports, dataFile, builtins>>
    /\ UNCHANGED <<data, heap, renderVars, mountVars>>

PickFile == \E file \in AppFiles : StartImport(file)
ParseDone == \E i \in DOMAIN flights : CompleteImport(i)
ParseFailed == \E i \in DOMAIN flights : FailImport(i)
Toggle ==
    \E rowKey \in {RowKeyOf(it) : it \in UNION {{parseCSV(f).items[i] :
                                                    i \in DOMAIN parseCSV(f).items} :
                                                f \in AppFiles}} :
        \E size \in SizeSet : \E delta \in {0 - 1, 1} : ToggleCell(rowKey, size, delta)
SortBy == \E value \in {"name", "total"} : SetSortField(value)
SortOrder == \E value \in {"asc", "desc"} : SetSortDirection(value)
Export == \E withProgress \in BOOLEAN : ExportData(withProgress)

NextApp ==
    \/ PickFile
    \/ ParseDone
    \/ ParseFailed
    \/ Toggle
    \/ SortBy
    \/ SortOrder
    \/ Export
SpecApp == Init /\ [][NextApp]_vars

----------------------------------------------------------------------------
(* Properties of the import handlers *)

\* d holds the counts, rows and orders of the file's rows and nothing else
FromFileOnly(d, file) ==
    LET its == ItemsFrom(file.rows, 0)
        C == CanonicalAt(its)
    IN  /\ d.grandTotal = SumQty(its, C)
        /\ \A s \in SizeSet : d.totals[s] = SumQty(its, {i \in C : its[i].size = s})
        /\ DOMAIN d.products = {RowKeyOf(its[i]) : i \in C}
        /\ \A k \in DOMAIN d.products : \A s \in SizeSet :
              d.products[k][s] =
                  SumQty(its, {i \in C : RowKeyOf(its[i]) = k /\ its[i].size = s})
        /\ DOMAIN d.colorTotals \subseteq {detectColorFamily(its[i].color) : i \in C}
        /\ \A f \in DOMAIN d.colorTotals : \A s \in SizeSet :
              d.colorTotals[f][s] =
                  SumQty(its, {i \in C : detectColorFamily(its[i].color) = f
                                         /\ its[i].size = s})
        /\ d.orders = OrdersFrom(<<>>, file.rows)

\* C21: after any successful import the published data is the aggregation of
\* the newly imported file only (no count, product row, color row or order of
\* the previously published data carries over, whether the file is the same
\* or another), and the import leaves checkedCells unchanged.
C21_ImportReplacesData ==
    [][Len(heap') = Len(heap) + 1 =>
          /\ FromFileOnly(data', FileNamed(dataFile'))
          /\ checkedCells' = checkedCells]_vars

\* C21 witness: a second file published over a different first one, with a
\* checked cell kept
C21_Witness ==
    /\ Len(heap) = 2
    /\ heap[1] # heap[2]
    /\ heap[1].grandTotal > heap[2].grandTotal
    /\ data = heap[2]
    /\ \E k \in DOMAIN checkedCells : checkedCells[k] = 2

\* C22: when reading the source file fails, parseCSV rejects and yields no
\* items or orders, processFile publishes no new AggregatedData, and the
\* published data (or null) is what it was before.
C22_FailedImportPublishesNothing ==
    [][(\E i \in DOMAIN flights : ~flights[i].readable /\ flights' = RemoveAt(flights, i)) =>
          /\ heap' = heap
          /\ data' = data
          /\ dataFile' = dataFile]_vars

\* C22 witness: two imports done, the second of them of the unreadable file,
\* the data of the first still published
C22_Witness ==
    /\ imports = 2
    /\ flights = <<>>
    /\ Len(heap) = 1
    /\ fileName = fnX
    /\ data = heap[1]
    /\ data.grandTotal > 0
    /\ dataFile = fnA

\* C23: no published AggregatedData is ever changed: a re-import publishes a
\* new object, which is as aggregateData returned it once the render that
\* follows setData is done, and the table sort, the earnings computation, the
\* export and the checklist toggles leave every published object as it was.
C23_PublishedNeverMutated ==
    [][/\ \A r \in 1..Len(heap) : heap'[r] = heap[r]
       /\ Len(heap') = Len(heap) + 1 =>
             LET file == FileNamed(dataFile') IN
             Top(heap') = aggregateData(ItemsFrom(file.rows, 0), OrdersFrom(<<>>, file.rows))]_vars

\* C23 witness: two objects published, the table sorted by total, a cell
\* checked, the earnings computed and a file exported
C23_Witness ==
    /\ Len(heap) = 2
    /\ Len(data.orders) >= 1
    /\ Len(processedOrders) >= 1
    /\ earningsStats # NoRender
    /\ sortField = "total"
    /\ download # NoDownload
    /\ \E k \in DOMAIN checkedCells : checkedCells[k] > 0

\* C26: starting from an empty checklist, after any interleaving of imports
\* and cell toggles getProgressStats reports 0 <= checkedCount <= totalCount
\* and a percentage within 0..100.
C26_ProgressWithinBounds ==
    LET st == getProgressStats(data, checkedCells) IN
    /\ 0 <= st.checkedCount
    /\ st.checkedCount <= st.totalCount
    /\ 0 <= st.percent.num
    /\ st.percent.num <= 100 * st.percent.den

\* C27: whenever no import is in flight, fileName is the name of the file
\* whose contents produced the published data.
C27_FileNameNamesDataFile ==
    flights = <<>> => fileName = dataFile

\* C28: loading is true in every state in which an import has started and not
\* completed, and false once every started import has completed.
C28_LoadingWhileInFlight ==
    loading = (flights # <<>>)

----------------------------------------------------------------------------
(* App.tsx: the mount, the load effect and the save effect *)

fnD == <<"d", ".", "c", "s", "v">>

\* what an earlier session left published: nothing, a file of two orders, a
\* file whose order has a date that does not parse
SessionFiles ==
    { File(fnA, TRUE, << Row(q2, nTeeNavyL, o1, d1226, m50, m40),
                         Row(q1, nMugBlueL, o2, d1227, m30, m30) >>),
      File(fnD, TRUE, << Row(q1, nTeeNavyL, o1, dNa, m50, m40) >>) }

SessionData ==
    {[data |-> NoData, fileName |-> Null, checkedCells |-> [k \in {} |-> 0]]}
    \cup {[data |-> aggregateData(parseCSV(f).items, parseCSV(f).orders),
           fileName |-> f.name,
           checkedCells |-> cc] :
            f \in SessionFiles,
            cc \in {[k \in {} |-> 0], (CellKey(tTee \o NameSep \o tNavy, sLARGE) :> 1)}}

SessionSettings ==
    { [shopifyPercent |-> tPercentDefault, shopifyFixed |-> tFixedDefault,
       blankCosts |-> tZero, shippingCost |-> tZero],
      [shopifyPercent |-> <<"3">>, shopifyFixed |-> tZero,
       blankCosts |-> t20, shippingCost |-> t1250] }

\* the items the save effect of an earlier session has written
SavedItems ==
    {JSONstringify(ToSave(s.data, s.fileName, dark, s.checkedCells, tab,
                          e.shopifyPercent, e.shopifyFixed, e.blankCosts, e.shippingCost)) :
        s \in SessionData, dark \in BOOLEAN, tab \in {"sort", "earnings"},
        e \in SessionSettings}

\* items written before the earnings settings were saved
LegacyFields == {"data", "fileName", "darkMode", "checkedCells", "activeTab"}
LegacyItems ==
    {[k \in LegacyFields |-> item[k]] :
        item \in {i \in SavedItems : i.shopifyPercent = tPercentDefault /\ i.darkMode}}

StoredItems == SavedItems \cup LegacyItems \cup {NoItem, Corrupt}

\* App.tsx:25-58: the first render, on the useState defaults, its effects not
\* yet run
MountInit ==
    /\ PipeInit
    /\ call = NoCall
    /\ ShipInit
    /\ SettingsInit
    /\ RenderInit
    /\ AppInit
    /\ storage \in StoredItems
    /\ saved = NoItem
    /\ isInitialized = FALSE
    /\ darkMode = TRUE
    /\ activeTab = "sort"
    /\ mountPc = "rendered"
    /\ pending = NoUpdates

\* the state of the render the effects belong to
CurrentState ==
    ToSave(data, fileName, darkMode, checkedCells, activeTab,
           shopifyPercent, shopifyFixed, blankCosts, shippingCost)

MountFrame ==
    UNCHANGED <<rows, items, ordersMap, pc, builtins, rerun, call, shipVars,
                earningsSortField, earningsSortDirection,
                loading, sortField, sortDirection, flights, imports, download>>

\* App.tsx:71-105: the load effect of the first render; its set calls take
\* effect in the next render
LoadEffect ==
    /\ mountPc = "rendered"
    /\ saved' = storage
    /\ pending' = LoadUpdates(storage, CurrentState)
    /\ mountPc' = "loaded"
    /\ UNCHANGED <<data, fileName, checkedCells, dataFile, heap, shopifyPercent, shopifyFixed,
                   blankCosts, shippingCost, renderVars>>
    /\ UNCHANGED <<storage, isInitialized, darkMode, activeTab>>
    /\ MountFrame

\* App.tsx:108-139: the save effect of the render just committed: of the first
\* render after the load effect, then of the render that applied its set calls
SaveEffect ==
    /\ mountPc \in {"loaded", "applied"}
    /\ storage' = SaveEffectWrites(storage, isInitialized, CurrentState)
    /\ mountPc' = IF mountPc = "loaded" THEN "flushed" ELSE "idle"
    /\ UNCHANGED <<data, fileName, checkedCells, dataFile, heap, shopifyPercent, shopifyFixed,
                   blankCosts, shippingCost, renderVars>>
    /\ UNCHANGED <<saved, isInitialized, darkMode, activeTab, pending>>
    /\ MountFrame

\* App.tsx:86-104: the render in which the set calls of the load effect,
\* setIsInitialized(true) among them, take effect
ApplyUpdates ==
    /\ mountPc = "flushed"
    /\ MountFrame
    /\ data' = pending.data
    /\ fileName' = pending.fileName
    /\ darkMode' = pending.darkMode
    /\ checkedCells' = pending.checkedCells
    /\ activeTab' = pending.activeTab
    /\ shopifyPercent' = pending.shopifyPercent
    /\ shopifyFixed' = pending.shopifyFixed
    /\ blankCosts' = pending.blankCosts
    /\ shippingCost' = pending.shippingCost
    /\ isInitialized' = TRUE
    /\ pending' = NoUpdates
    /\ mountPc' = "applied"
    /\ heap' = IF pending.data = NoData THEN heap ELSE Append(heap, pending.data)
    /\ dataFile' = pending.fileName
    /\ UNCHANGED <<storage, saved>>
    /\ Derive

\* App.tsx:483, 489: a tab button
SetActiveTab(tab) ==
    /\ mountPc = "idle"
    /\ tab # activeTab
    /\ MountFrame
    /\ activeTab' = tab
    /\ UNCHANGED <<data, fileName, checkedCells, dataFile, heap, shopifyPercent, shopifyFixed,
                   blankCosts, shippingCost>>
    /\ UNCHANGED <<saved, isInitialized, darkMode, mountPc, pending>>
    /\ Derive
    /\ Persist

\* App.tsx:149-151: toggleDarkMode
ToggleDarkMode ==
    /\ mountPc = "idle"
    /\ MountFrame
    /\ darkMode' = ~darkMode
    /\ UNCHANGED <<data, fileName, checkedCells, dataFile, heap, shopifyPercent, shopifyFixed,
                   blankCosts, shippingCost>>
    /\ UNCHANGED <<saved, isInitialized, activeTab, mountPc, pending>>
    /\ Derive
    /\ Persist

SwitchTab == \E tab \in {"sort", "earnings"} : SetActiveTab(tab)

NextMount ==
    \/ LoadEffect
    \/ SaveEffect
    \/ ApplyUpdates
    \/ SwitchTab
    \/ ToggleDarkMode
SpecMount == MountInit /\ [][NextMount]_vars

\* the item holds a saved state
ValidSaved(item) == item # NoItem /\ item # Corrupt

\* the written data is the saved data, the date of an order that had none
\* being the epoch
SameData(written, before) ==
    IF before = JsonNull THEN written = JsonNull
    ELSE /\ written # JsonNull
         /\ written.products = before.products
         /\ written.colorTotals = before.colorTotals
         /\ written.totals = before.totals
         /\ written.grandTotal = before.grandTotal
         /\ Len(written.orders) = Len(before.orders)
         /\ \A i \in 1..Len(before.orders) :
               /\ written.orders[i].name = before.orders[i].name
               /\ written.orders[i].total = before.orders[i].total
               /\ written.orders[i].subtotal = before.orders[i].subtotal
               /\ written.orders[i].date =
                      IF before.orders[i].date = JsonNull THEN [iso |-> 0]
                      ELSE before.orders[i].date

\* the written state is the saved one: data, fileName, checkedCells,
\* activeTab, and the earnings settings the saved state holds
HoldsSaved(written, before) ==
    /\ SameData(written.data, before.data)
    /\ written.fileName = before.fileName
    /\ written.checkedCells = before.checkedCells
    /\ written.activeTab = before.activeTab
    /\ \A k \in {"shopifyPercent", "shopifyFixed", "blankCosts", "shippingCost"} :
          k \in DOMAIN before => written[k] = before[k]

\* C30: on mount the save effect writes nothing before the load effect has
\* run and the state it restored is rendered; when storage holds a saved
\* state the first write holds that state (data, fileName, checkedCells,
\* activeTab, earnings settings), and saved data is never replaced by the
\* initial null.
C30_NoSaveBeforeRestore ==
    [][/\ storage' # storage => (isInitialized /\ mountPc \in {"applied", "idle"})
       /\ (mountPc = "applied" /\ ValidSaved(saved)) => HoldsSaved(storage', saved)
       /\ (ValidSaved(saved) /\ saved.data # JsonNull) =>
             (ValidSaved(storage') /\ storage'.data # JsonNull)]_vars

\* C30 witness: the mount done on a saved state with data, a checked cell and
\* the earnings tab; the first write has put the epoch where the saved order
\* had no date
C30_Witness ==
    /\ mountPc = "idle"
    /\ ValidSaved(saved)
    /\ saved.data # JsonNull
    /\ saved.data.orders[1].date = JsonNull
    /\ storage.data.orders[1].date = [iso |-> 0]
    /\ saved.activeTab = "earnings"
    /\ activeTab = "earnings"
    /\ saved.checkedCells # [k \in {} |-> 0]
    /\ storage.checkedCells = saved.checkedCells
    /\ data = RestoreDates(saved.data)

====
